---- MODULE Spec2Model ----
(***************************************************************************)
(* Verification model of icecast-kh: the relay/slave subsystem (slave.c)   *)
(* and the MP3/ICY format plugin (format_mp3.c).                           *)
(*                                                                         *)
(* Pointers are modelled as indexes into heaps (0 is NULL).  Wall-clock    *)
(* time is abstracted: schedule_ms is kept as the delay a callback asked   *)
(* for, and comparisons against the clock are inputs of the actions.       *)
(***************************************************************************)
EXTENDS Integers, Sequences, FiniteSets, TLC

(***************************************************************************)
(* Bounds of the model                                                     *)
(***************************************************************************)
MaxRelayObjs == 2      \* relay_server structures live at once in the diff runs
CfgInterval == 30      \* relay->interval of the configured relays (seconds)
CfgSourceLimit == 5    \* config->source_limit
MaxPasses == 2         \* update_relays passes explored in the diff runs
IcyInterval == 2       \* mount->mp3_meta_interval: payload bytes between inserts
QueueBlockSize == 2    \* mount->queue_block_size
MaxBlocks == 2         \* blocks the source reads in a run
MaxTitles == 3         \* metadata updates the source gets in a run
TitleLen == 0          \* strlen of the titles the source is given
MaxInline == 2         \* largest icy-metaint an upstream announces
InlineBlocks == 2      \* metadata blocks in the stream of an upstream

NoRelay == 0
NoSource == 0
NoMaster == 0

\* relays_connecting may not pass this value when a relay asks to start
ConnectingCap == 3

\* the start-up runs use one relay more than can be connecting at a time
StartRelays == ConnectingCap + 2

HeapSize == IF StartRelays > MaxRelayObjs THEN StartRelays ELSE MaxRelayObjs
RelayIds == 1..HeapSize
ClientIds == 1..HeapSize

(***************************************************************************)
(* State of the relay subsystem                                            *)
(***************************************************************************)
VARIABLES
    relay,              \* heap of relay_server structures
    global_relays,      \* global.relays: the live list, head first
    client,             \* relay clients (client_t) created by relay_install
    source,             \* source_t of each relay client
    thr,                \* start_relay_stream thread of each client
    relays_connecting,  \* int relays_connecting
    global_sources,     \* global.sources
    slowdown,           \* global.new_connections_slowdown
    ice_running,        \* global.running == ICE_RUNNING
    upstream,           \* answers the upstream servers can give in this run
    passes,             \* number of update_relays passes made so far
    last_cands,         \* the candidate list of the last update_relays pass
    refbufs,            \* heap of refbuf_t, blank_meta included
    mp3,                \* mp3_state of the mount and what it has produced
    queue,              \* the blocks queued on the source, oldest first
    lst,                \* the listener: client_t and mp3_client_data
    rx,                 \* the bytes the listener's socket has accepted
    wire,               \* the byte stream of an upstream with inline metadata
    wire_pos,           \* how much of it client_read_bytes has handed over
    out,                \* the bytes of the blocks mp3_get_filter_meta returned
    lister,             \* streamlister, the stream-list task and master_relays
    slaves              \* slaves_lock, redirectors and the threads using them

\* what the callbacks and the relay-open task leave alone
inlineVars == <<wire, wire_pos, out>>

icyVars == <<refbufs, mp3, queue, lst, rx, inlineVars>>

\* what only the slave thread's polling and the redirect requests touch
slaveVars == <<lister, slaves>>

ctlVars == <<ice_running, upstream, passes, last_cands, icyVars, slaveVars>>

relayVars == <<relay, global_relays, client, source, thr, relays_connecting,
               global_sources, slowdown, ice_running, upstream, passes,
               last_cands>>

(***************************************************************************)
(* Records                                                                 *)
(***************************************************************************)
FreeRelay ==
    [alloc |-> FALSE, localmount |-> "", masters |-> <<>>, mp3metadata |-> 0,
     on_demand |-> 0, interval |-> 0, running |-> 0, cleanup |-> 0,
     source |-> NoSource, in_use |-> NoMaster, new_details |-> NoRelay]

NoClient ==
    [exists |-> FALSE, shared_data |-> NoRelay, ops |-> "none", active |-> FALSE,
     sched |-> 0, con_time |-> FALSE, parser |-> FALSE]

NoSourceRec ==
    [exists |-> FALSE, mount |-> "", running |-> FALSE, terminating |-> FALSE,
     on_demand |-> FALSE, pause |-> FALSE, timeout |-> FALSE, sync |-> FALSE,
     listeners |-> 0, termination_count |-> 0, locked |-> FALSE]

NoThread ==
    [pc |-> "idle", master |-> NoMaster, redirects |-> 0,
     server |-> "", port |-> 0, mount |-> "", ret |-> 0, exit |-> "none",
     failed |-> 1, yp_removed |-> FALSE]

\* the relay subsystem as one value, so that a callback can be applied to
\* the result of another one (relay_initialise ends by calling relay_startup)
State ==
    [relay |-> relay, list |-> global_relays, client |-> client,
     source |-> source, thr |-> thr, rcon |-> relays_connecting,
     gsrc |-> global_sources, slow |-> slowdown, ovf |-> FALSE]

Install(s) ==
    /\ relay' = s.relay
    /\ global_relays' = s.list
    /\ client' = s.client
    /\ source' = s.source
    /\ thr' = s.thr
    /\ relays_connecting' = s.rcon
    /\ global_sources' = s.gsrc
    /\ slowdown' = s.slow

Install_init(s) ==
    /\ relay = s.relay
    /\ global_relays = s.list
    /\ client = s.client
    /\ source = s.source
    /\ thr = s.thr
    /\ relays_connecting = s.rcon
    /\ global_sources = s.gsrc
    /\ slowdown = s.slow

(***************************************************************************)
(* relay_copy, relay_install: slave.c                                      *)
(***************************************************************************)
\* a candidate relay as handed to update_relays (config->relay or the list
\* built by streamlist_data): the fields relay_copy duplicates
MasterCopy(m) == [ip |-> m.ip, port |-> m.port, mount |-> m.mount, skip |-> 0]

relay_copy(r) ==
    [alloc |-> TRUE, localmount |-> r.localmount,
     masters |-> [i \in DOMAIN r.masters |-> MasterCopy(r.masters[i])],
     mp3metadata |-> r.mp3metadata, on_demand |-> r.on_demand,
     interval |-> r.interval, running |-> 1, cleanup |-> 0,
     source |-> NoSource, in_use |-> NoMaster, new_details |-> NoRelay]

FreeIds(heap) == {i \in RelayIds : ~heap[i].alloc}
FreeClients(cl) == {i \in ClientIds : ~cl[i].exists}
Lowest(S) == CHOOSE i \in S : \A j \in S : i <= j

\* calloc of a relay_server filled by relay_copy; ovf marks heap exhaustion
\* of the model (the action that needs it is then not taken)
AllocCopy(s, r) ==
    IF FreeIds(s.relay) = {}
    THEN [st |-> [s EXCEPT !.ovf = TRUE], id |-> NoRelay]
    ELSE LET id == Lowest(FreeIds(s.relay))
         IN [st |-> [s EXCEPT !.relay[id] = relay_copy(r)], id |-> id]

relay_install(s, id) ==
    IF FreeClients(s.client) = {}
    THEN [s EXCEPT !.ovf = TRUE]
    ELSE LET c == Lowest(FreeClients(s.client))
         IN [s EXCEPT !.client[c] =
                [exists |-> TRUE, shared_data |-> id, ops |-> "init",
                 active |-> TRUE, sched |-> 0, con_time |-> FALSE,
                 parser |-> FALSE]]

(***************************************************************************)
(* get_relay_details, relay_reset                                          *)
(***************************************************************************)
get_relay_details(s, c) ==
    LET old == s.client[c].shared_data
        new == s.relay[old].new_details
    IN IF old # NoRelay /\ new # NoRelay
       THEN [s EXCEPT !.client[c].shared_data = new,
                      !.relay[new].source = s.relay[old].source,
                      !.relay[old] = FreeRelay]
       ELSE s

relay_reset_none(s, r) == s

relay_reset(s, r) ==
    [s EXCEPT !.relay[r].masters =
        [i \in DOMAIN s.relay[r].masters |->
            [s.relay[r].masters[i] EXCEPT !.skip = 0]]]

SkipInUse_forget(s, r) == s

SkipInUse(s, r) ==
    IF s.relay[r].in_use # NoMaster
    THEN [s EXCEPT !.relay[r].masters[s.relay[r].in_use].skip = 1]
    ELSE s

(***************************************************************************)
(* Collaborators of slave.c that live in source.c                          *)
(***************************************************************************)
\* source_reserve: a new source_t for the mount, NULL when one exists
source_exists(s, mount) ==
    \E x \in ClientIds : s.source[x].exists /\ s.source[x].mount = mount

\* source_init: the source starts running on the connection just opened;
\* it returns with source->lock released
source_init(s, src) ==
    [s EXCEPT !.source[src].running = TRUE, !.source[src].timeout = FALSE,
              !.source[src].locked = FALSE]

\* source_read: reads from the upstream; the stream can end or time out
source_read(s, src, die, tmo) ==
    IF s.source[src].running /\ die
    THEN [s EXCEPT !.source[src].running = FALSE, !.source[src].timeout = tmo]
    ELSE s

\* source_shutdown: start of the termination of a source
source_shutdown(s, src) ==
    [s EXCEPT !.source[src].terminating = TRUE,
              !.source[src].termination_count = s.source[src].listeners]

(***************************************************************************)
(* relay_startup                                                           *)
(***************************************************************************)
\* the test that guards the increment of relays_connecting
ConnectingFull_late(n) == n > ConnectingCap + 1

ConnectingFull(n) == n > ConnectingCap

\* the task created with CLIENT_ACTIVE left set
ClearActive_never(s, c) == s

\* client->flags &= ~CLIENT_ACTIVE, before thread_create
ClearActive(s, c) == [s EXCEPT !.client[c].active = FALSE]

\* start_relay of an on-demand relay: source->listeners, or 1 when the
\* fallback of the mount has listeners
StartRelay_fallback(listeners, fallback_def, fallback_busy) ==
    listeners > 0 \/ fallback_def

StartRelay(listeners, fallback_def, fallback_busy) ==
    listeners > 0 \/ (fallback_def /\ fallback_busy)

relay_startup(s0, c, fallback_def, fallback_busy) ==
    LET s1 == get_relay_details(s0, c)
        r == s1.client[c].shared_data
        s2 == IF s1.relay[r].cleanup = 1
              THEN [s1 EXCEPT !.relay[r].running = 0] ELSE s1
        R == s2.relay[r]
    IN IF R.running = 0
       THEN IF R.source = NoSource
            THEN [st |-> s2, ret |-> -1]
            ELSE [st |-> [s2 EXCEPT !.client[c].ops = "read",
                                    !.client[c].sched = 20], ret |-> 0]
       ELSE IF ~ice_running
       THEN [st |-> [s2 EXCEPT !.client[c].sched = 50], ret |-> 0]
       ELSE
         LET s3 == IF R.on_demand = 1
                   THEN [s2 EXCEPT !.source[R.source].on_demand = TRUE] ELSE s2
             start_relay ==
                 IF R.on_demand = 1
                 THEN StartRelay(s2.source[R.source].listeners,
                                 fallback_def, fallback_busy)
                 ELSE TRUE
         IN IF ~start_relay
            THEN [st |-> [s3 EXCEPT !.client[c].sched =
                            IF fallback_def THEN R.interval * 1000 ELSE 60000],
                  ret |-> 0]
            ELSE IF ConnectingFull(s3.rcon)
            THEN [st |-> [s3 EXCEPT !.client[c].sched = 200,
                            !.slow = IF s3.slow < 5 THEN s3.slow + 1 ELSE s3.slow],
                  ret |-> 0]
            ELSE [st |-> [ClearActive(s3, c) EXCEPT
                            !.rcon = s3.rcon + 1,
                            !.thr[c] = [NoThread EXCEPT !.pc = "start"]],
                  ret |-> 0]

(***************************************************************************)
(* relay_initialise                                                        *)
(***************************************************************************)
relay_initialise(s0, c, fallback_def, fallback_busy) ==
    LET s1 == get_relay_details(s0, c)
        r == s1.client[c].shared_data
        R == s1.relay[r]
    IN IF R.source = NoSource /\ source_exists(s1, R.localmount)
       THEN [st |-> [s1 EXCEPT !.client[c].sched = 2000], ret |-> 0]
       ELSE
         LET s2 == IF R.source = NoSource
                   THEN [s1 EXCEPT !.relay[r].source = c,
                                   !.source[c] = [NoSourceRec EXCEPT
                                        !.exists = TRUE, !.mount = R.localmount]]
                   ELSE s1
             src == s2.relay[r].source
         IN IF ice_running /\ R.running = 0
            THEN [st |-> [s2 EXCEPT !.client[c].sched = 10000000], ret |-> 0]
            ELSE
              LET s3 == IF ice_running /\ R.on_demand = 1
                        THEN [s2 EXCEPT !.source[src].on_demand = TRUE] ELSE s2
                  s4 == [s3 EXCEPT !.client[c].ops = "startup"]
              IN relay_startup(s4, c, fallback_def, fallback_busy)

(***************************************************************************)
(* relay_read                                                              *)
(***************************************************************************)
\* the once through code run when the source is seen stopped
relay_read_once(s, c, r, src, quick) ==
    LET t1 == IF s.client[c].con_time
              THEN LET u == IF quick THEN SkipInUse(s, r) ELSE relay_reset(s, r)
                   IN IF s.source[src].timeout THEN SkipInUse(u, r) ELSE u
              ELSE s
        t2 == IF t1.relay[r].running = 0
              THEN [t1 EXCEPT !.source[src].pause = FALSE] ELSE t1
    IN source_shutdown(t2, src)

\* where the relay goes once its source has terminated
StandingBy_never(R, con_time) == FALSE

\* if (client->connection.con_time && relay->in_use) of a running relay:
\* "standing by to restart relay", no wait
StandingBy(R, con_time) == R.running = 1 /\ con_time /\ R.in_use # NoMaster

relay_read_restart(s, c, r, src) ==
    LET R == s.relay[r]
        a == [s EXCEPT !.client[c].ops = "startup"]
        b == IF StandingBy(R, s.client[c].con_time)
             THEN LET b1 == IF R.on_demand = 1 /\ s.source[src].listeners = 0
                            THEN relay_reset(a, r) ELSE a
                  IN [b1 EXCEPT !.client[c].ops = "init"]
             ELSE LET b1 == [a EXCEPT !.client[c].sched =
                                IF R.running = 1 THEN R.interval * 1000
                                                 ELSE 3600000,
                                      !.source[src].on_demand = FALSE]
                  IN relay_reset(b1, r)
    IN [b EXCEPT !.client[c].con_time = FALSE]

relay_read(s0, c, quick, die, tmo, big, late) ==
    LET s1 == get_relay_details(s0, c)
        r == s1.client[c].shared_data
        src == s1.relay[r].source
    IN IF s1.source[src].running
       THEN LET s2 == IF s1.relay[r].cleanup = 1
                      THEN [s1 EXCEPT !.relay[r].running = 0] ELSE s1
                s3 == IF s2.relay[r].running = 0
                      THEN [s2 EXCEPT !.source[src].running = FALSE] ELSE s2
                s4 == IF s3.relay[r].on_demand = 1
                          /\ s3.source[src].listeners = 0 /\ big
                      THEN [s3 EXCEPT !.source[src].running = FALSE] ELSE s3
            IN [st |-> source_read(s4, src, die, tmo), ret |-> 0]
       ELSE
         LET a == IF ~s1.source[src].terminating
                  THEN relay_read_once(s1, c, r, src, quick) ELSE s1
             S == a.source[src]
         IN IF S.termination_count > 0 /\ S.termination_count <= S.listeners
            THEN [st |-> [a EXCEPT !.client[c].sched =
                                      IF late THEN 550 ELSE 150], ret |-> 0]
            ELSE
              LET b1 == IF a.client[c].con_time
                        THEN [a EXCEPT !.gsrc = a.gsrc - 1] ELSE a
                  b2 == [b1 EXCEPT !.client[c].parser = FALSE,
                                   !.source[src].terminating = FALSE,
                                   !.source[src].sync = FALSE]
              IN IF b2.relay[r].cleanup = 1
                 THEN IF S.listeners > 0
                      THEN [st |-> [b2 EXCEPT
                                !.source[src].termination_count = S.listeners,
                                !.source[src].pause = FALSE,
                                !.source[src].sync = TRUE], ret |-> 0]
                      ELSE [st |-> b2, ret |-> -1]
                 ELSE [st |-> relay_read_restart(b2, c, r, src), ret |-> 0]

(***************************************************************************)
(* relay_release                                                           *)
(***************************************************************************)
relay_release(s, c) ==
    LET r == s.client[c].shared_data
        src == s.relay[r].source
        s1 == IF src # NoSource
              THEN [s EXCEPT !.source[src] = NoSourceRec] ELSE s
    IN [s1 EXCEPT !.relay[r] = FreeRelay, !.client[c] = NoClient,
                  !.thr[c] = NoThread]

(***************************************************************************)
(* open_relay, open_relay_connection, start_relay_stream: the relay-open   *)
(* task, one step per blocking connection attempt                          *)
(***************************************************************************)
RedirectLimit == 10

\* Location values of a 302 answer: scheme, host, optional port and path
Uris == [scheme : {"http://", "https://"}, host : {"peer"},
         port : {0, 9000}, path : {"", "/live"}]

AnyUri == [scheme |-> "http://", host |-> "peer", port |-> 0, path |-> ""]

AnswerKinds == {"refused", "noparse", "redirect", "error", "ok"}

\* what one connection attempt can meet: the kind of answer and, for a 302,
\* its Location
Answers ==
    {[kind |-> k, uri |-> AnyUri] : k \in AnswerKinds \ {"redirect"}}
        \cup {[kind |-> "redirect", uri |-> u] : u \in Uris}

\* the condition of the while loop of open_relay_connection
RedirectsLeft_inclusive(n) == n <= RedirectLimit

RedirectsLeft(n) == n < RedirectLimit

\* the do/while of open_relay: the next master to try from position i, or
\* NoMaster when the loop ends; the first iteration makes no test of
\* global.running
open_relay_next_any(masters, i, first) ==
    IF i > Len(masters) THEN NoMaster ELSE i

RECURSIVE open_relay_next(_, _, _)
open_relay_next(masters, i, first) ==
    IF i > Len(masters) THEN NoMaster
    ELSE IF ~first /\ ~ice_running THEN NoMaster
    ELSE IF masters[i].skip = 1 THEN open_relay_next(masters, i + 1, FALSE)
    ELSE i

\* entry of open_relay_connection for master m, or the end of open_relay;
\* src->lock is released for the time of a connection attempt
open_relay_enter(s, c, r, m) ==
    IF m = NoMaster
    THEN [s EXCEPT !.thr[c].pc = "finish", !.thr[c].failed = 1,
                   !.source[s.relay[r].source].locked = TRUE]
    ELSE [s EXCEPT !.source[s.relay[r].source].locked = FALSE,
                   !.thr[c] =
            [pc |-> "connect", master |-> m, redirects |-> 0,
             server |-> s.relay[r].masters[m].ip,
             port |-> s.relay[r].masters[m].port,
             mount |-> s.relay[r].masters[m].mount,
             ret |-> s.thr[c].ret, exit |-> s.thr[c].exit, failed |-> 1,
             yp_removed |-> FALSE]]

start_relay_stream_begin(s, c) ==
    LET r == s.client[c].shared_data
        src == s.relay[r].source
        sources == s.gsrc + 1
        s1 == [s EXCEPT !.gsrc = sources, !.client[c].con_time = TRUE,
                        !.source[src].locked = TRUE,
                        !.source[src].pause = TRUE]
    IN IF sources > CfgSourceLimit
       THEN [s1 EXCEPT !.thr[c] = [NoThread EXCEPT !.pc = "finish", !.failed = 1,
                                                   !.exit = "sources"]]
       ELSE open_relay_enter(s1, c, r, open_relay_next(s1.relay[r].masters, 1, TRUE))

\* the failure exit of open_relay_connection, then open_relay moves on;
\* exit names the place where the loop was left
open_relay_connection_failed(s, c, r, exit) ==
    LET s1 == SkipInUse(s, r)
        s2 == [s1 EXCEPT !.thr[c].ret = -1, !.thr[c].exit = exit]
        m == s2.thr[c].master
    IN open_relay_enter(s2, c, r, open_relay_next(s2.relay[r].masters, m + 1, FALSE))

\* relay->in_use = master, whatever server a redirect has led to
MasterInUse_none(T) == NoMaster

MasterInUse(T) == T.master

\* one iteration of the while loop of open_relay_connection
open_relay_connection(s, c, answer, uri, complete_ok) ==
    LET r == s.client[c].shared_data
        T == s.thr[c]
        s1 == [s EXCEPT !.client[c].con_time = TRUE,
                        !.relay[r].in_use = MasterInUse(T)]
    IN CASE answer = "refused" ->
              open_relay_connection_failed(s1, c, r, "connect")
         [] answer = "noparse" ->
              open_relay_connection_failed(s1, c, r, "response")
         [] answer = "error" ->
              open_relay_connection_failed(
                  [s1 EXCEPT !.client[c].parser = FALSE], c, r, "message")
         [] answer = "redirect" ->
              IF uri.scheme # "http://"
              THEN open_relay_connection_failed(s1, c, r, "scheme")
              ELSE LET s2 == [s1 EXCEPT
                          !.thr[c].server = uri.host,
                          !.thr[c].port = IF uri.port = 0 THEN 80 ELSE uri.port,
                          !.thr[c].mount = IF uri.path = "" THEN "/" ELSE uri.path,
                          !.thr[c].redirects = T.redirects + 1]
                   IN IF RedirectsLeft(s2.thr[c].redirects)
                      THEN s2
                      ELSE open_relay_connection_failed(s2, c, r, "limit")
         [] answer = "ok" ->
              LET s2 == [s1 EXCEPT !.client[c].parser = TRUE,
                                   !.thr[c].ret = 0, !.thr[c].exit = "ok"]
              IN IF complete_ok
                 THEN [s2 EXCEPT !.thr[c].pc = "finish", !.thr[c].failed = 0,
                                 !.source[s.relay[r].source].locked = TRUE]
                 ELSE open_relay_enter(s2, c, r,
                        open_relay_next(s2.relay[r].masters, T.master + 1, FALSE))

\* the failure path keeps SOURCE_ON_DEMAND of an on-demand relay
FailedFlags_kept(s, c, r, src) == s

\* if (failed): SOURCE_ON_DEMAND is cleared for an on-demand relay, and
\* yp_remove called for any other: the task notes the call until it ends
FailedFlags(s, c, r, src) ==
    IF s.relay[r].on_demand = 1
    THEN [s EXCEPT !.source[src].on_demand = FALSE]
    ELSE [s EXCEPT !.thr[c].yp_removed = TRUE]

\* start_relay_stream once open_relay has returned or was not attempted
start_relay_stream_finish(s, c) ==
    LET r == s.client[c].shared_data
        src == s.relay[r].source
        s1 == IF s.thr[c].failed = 0 THEN source_init(s, src) ELSE s
        s2 == [s1 EXCEPT !.client[c].ops = "read", !.client[c].sched = 0]
        s3 == IF s.thr[c].failed = 1
              THEN [FailedFlags(s2, c, r, src) EXCEPT
                      !.relay[r].in_use = NoMaster,
                      !.source[src].pause = FALSE,
                      !.source[src].locked = FALSE]
              ELSE s2
    IN [s3 EXCEPT !.thr[c].pc = "done"]

\* the counter given back only by a task that opened a stream
start_relay_stream_end_opened(s, c) ==
    [s EXCEPT !.rcon = IF s.thr[c].failed = 0 THEN s.rcon - 1 ELSE s.rcon,
              !.client[c].active = TRUE,
              !.thr[c] = NoThread]

\* the end of start_relay_stream: the counter is given back and the client
\* returns to its worker
start_relay_stream_end(s, c) ==
    [s EXCEPT !.rcon = s.rcon - 1, !.client[c].active = TRUE,
              !.thr[c] = NoThread]

(***************************************************************************)
(* relay_has_changed, update_relay_set, update_relays                      *)
(***************************************************************************)
MastersDiffer_pointers(nm, om) == TRUE

MastersDiffer(nm, om) ==
    \/ Len(nm) # Len(om)
    \/ \E k \in 1..Len(nm) :
          \/ nm[k].mount # om[k].mount
          \/ nm[k].ip # om[k].ip
          \/ nm[k].port # om[k].port

relay_has_changed(new, old) ==
    MastersDiffer(new.masters, old.masters) \/ new.mp3metadata # old.mp3metadata

WakeSourceClient(s, r) ==
    IF r # NoRelay /\ s.relay[r].source # NoSource
    THEN [s EXCEPT !.client[s.relay[r].source].sched = 0] ELSE s

\* *existing_p = existing_relay->next: the matched relay leaves *current
Unlink_none(list, j) == list

Unlink(list, j) == SubSeq(list, 1, j - 1) \o SubSeq(list, j + 1, Len(list))

RECURSIVE update_relay_set(_, _, _, _)
update_relay_set(s, updated, i, new_list) ==
    IF i > Len(updated) THEN [st |-> s, new_list |-> new_list]
    ELSE
      LET cand == updated[i]
          J == {j \in DOMAIN s.list :
                   s.relay[s.list[j]].localmount = cand.localmount}
      IN IF J # {}
         THEN
           LET j == Lowest(J)
               ex == s.list[j]
               rest == Unlink(s.list, j)
           IN IF ice_running /\ relay_has_changed(cand, s.relay[ex])
              THEN LET a == AllocCopy(s, cand)
                       s1 == [a.st EXCEPT !.relay[ex].new_details = a.id]
                       s2 == WakeSourceClient(s1, ex)
                   IN update_relay_set([s2 EXCEPT !.list = rest], updated,
                                       i + 1, <<a.id>> \o new_list)
              ELSE LET s1 == IF ice_running
                             THEN [s EXCEPT !.relay[ex].on_demand = cand.on_demand]
                             ELSE s
                   IN update_relay_set([s1 EXCEPT !.list = rest], updated,
                                       i + 1, <<ex>> \o new_list)
         ELSE LET a == AllocCopy(s, cand)
                  s1 == IF a.id = NoRelay THEN a.st ELSE relay_install(a.st, a.id)
              IN update_relay_set(s1, updated, i + 1, <<a.id>> \o new_list)

RECURSIVE mark_cleanup(_, _, _)
mark_cleanup(s, cleanup_relays, i) ==
    IF i > Len(cleanup_relays) THEN s
    ELSE LET r == cleanup_relays[i]
             s1 == WakeSourceClient(s, r)
         IN mark_cleanup([s1 EXCEPT !.relay[r].cleanup = 1], cleanup_relays, i + 1)

update_relays(s, new_relay_list) ==
    LET res == update_relay_set(s, new_relay_list, 1, <<>>)
        cleanup_relays == res.st.list
    IN mark_cleanup([res.st EXCEPT !.list = res.new_list], cleanup_relays, 1)

(***************************************************************************)
(* format_mp3.c: reference counted buffers, the plugin state of a mount    *)
(* and one ICY listener                                                    *)
(***************************************************************************)
NoBuf == 0
\* static refbuf_t blank_meta
Blank == 1
BlankLen == 17
BlankTitle == -1
ICY_METADATA_INTERVAL == 16000
MAX_META_LEN == 255 * 16
SendCap == 2900

\* an intro block holds more than one interval of payload
IntroLen == IcyInterval + 1

BufIds == 1..(MaxBlocks + MaxTitles + 4)

FreeBuf ==
    [live |-> FALSE, count |-> 0, kind |-> "none", associated |-> NoBuf,
     len |-> 0, title |-> 0, serial |-> 0, chain |-> 0, data |-> <<>>,
     flags |-> {}, text |-> 0]

blank_meta ==
    [live |-> TRUE, count |-> 1, kind |-> "meta", associated |-> NoBuf,
     len |-> BlankLen, title |-> BlankTitle, serial |-> 0, chain |-> 0,
     data |-> <<>>, flags |-> {}, text |-> 0]

NoListener ==
    [phase |-> "none", refbuf |-> NoBuf, pos |-> 0, interval |-> 0,
     since_meta_block |-> 0, metadata_offset |-> 0, associated |-> NoBuf,
     in_metadata |-> FALSE, using_blank |-> FALSE, intro |-> FALSE,
     wants_meta |-> FALSE, headers |-> {}, queue_pos |-> 0]

NoPlugin ==
    [alive |-> FALSE, metadata |-> NoBuf, update_metadata |-> 0,
     url_title |-> 0, read_data |-> NoBuf, read_count |-> 0, interval |-> -1,
     inline_metadata_interval |-> 0, offset |-> 0, build_metadata |-> <<>>,
     build_metadata_len |-> 0, build_metadata_offset |-> 0,
     source_running |-> FALSE, published |-> 0, blocks |-> 0,
     mpeg |-> FALSE, pos |-> 0, raw |-> <<>>]

\* the plugin, its queue and the listener as one value
Icy == [bufs |-> refbufs, mp3 |-> mp3, queue |-> queue, lst |-> lst, rx |-> rx]

InstallIcy(s) ==
    /\ refbufs' = s.bufs
    /\ mp3' = s.mp3
    /\ queue' = s.queue
    /\ lst' = s.lst
    /\ rx' = s.rx

\* no mount uses the plugin
IcyOffState ==
    [bufs |-> [i \in BufIds |-> IF i = Blank THEN blank_meta ELSE FreeBuf],
     mp3 |-> NoPlugin, queue |-> <<>>, lst |-> NoListener, rx |-> <<>>]

InstallIcy_init(s) ==
    /\ refbufs = s.bufs
    /\ mp3 = s.mp3
    /\ queue = s.queue
    /\ lst = s.lst
    /\ rx = s.rx

NoWire ==
    /\ wire = <<>>
    /\ wire_pos = 0
    /\ out = <<>>

IcyOff == InstallIcy_init(IcyOffState) /\ NoWire

(***************************************************************************)
(* slave.c: the stream-list task (struct master_conn_details) and the      *)
(* redirector list, as they are before the slave thread's first poll       *)
(***************************************************************************)
\* calloc (1, sizeof (*details)) in update_from_master; fault records that
\* the task met undefined behaviour and took the outcome that ends it
NoDetails ==
    [ok |-> 0, previous |-> 0, buffer |-> <<>>, new_relays |-> <<>>,
     fault |-> FALSE]

\* no transfer is under way
NoTransfer == [status |-> 0, body |-> <<>>, pos |-> 0, header |-> FALSE]

\* slave_initialize: streamlister = 0, no task, global.master_relays empty;
\* tasks counts the streamlist threads alive, polls the tasks that ended,
\* merged the update_relays calls of the last task, failed its fetches that
\* did not succeed
NoLister ==
    [streamlister |-> 0, pc |-> "none", tasks |-> 0, polls |-> 0,
     master |-> NoDetails, xfer |-> NoTransfer, master_relays |-> <<>>,
     merged |-> 0, failed |-> 0]

\* redirect_host structures live at once, and config->max_redirects
MaxHosts == 3
CfgMaxRedirects == 2

HostIds == 1..MaxHosts
\* the workers that run redirect_client, and the thread that runs
\* redirector_update and redirector_clearall
RedirectThreads == {1, 2}
UpdateThread == Cardinality(RedirectThreads) + 1

\* timed: next_update is set; stale: next_update + 10 < time (NULL)
FreeHost ==
    [alloc |-> FALSE, server |-> 0, next |-> 0, timed |-> FALSE,
     stale |-> FALSE]

\* the locals of a thread inside redirect_client or redirector_update;
\* trail 0 is &redirectors, trail h is &h->next; location is the server
\* that client_send_302 named, sent the number of its calls, ret the local
\* ret of redirect_client
IdleThread ==
    [pc |-> "idle", checking |-> 0, trail |-> 0, which |-> 0, server |-> 0,
     location |-> 0, sent |-> 0, ret |-> 0]

\* slave_initialize: redirectors = NULL, slaves_lock free; fault records
\* that a thread used or freed a redirect_host that had been freed
NoSlaves ==
    [writer |-> 0, readers |-> {},
     host |-> [h \in HostIds |-> FreeHost],
     redirectors |-> 0, redirect_count |-> 0,
     thr |-> [t \in RedirectThreads \cup {UpdateThread} |-> IdleThread],
     fault |-> FALSE]

SlaveOff == lister = NoLister /\ slaves = NoSlaves

(***************************************************************************)
(* refbuf.c: refbuf_new, refbuf_addref, refbuf_release                     *)
(***************************************************************************)
FreeBufs(bufs) == {i \in BufIds : ~bufs[i].live}

refbuf_new(s, kind, len) ==
    LET id == Lowest(FreeBufs(s.bufs))
    IN [st |-> [s EXCEPT !.bufs[id] =
                   [FreeBuf EXCEPT !.live = TRUE, !.count = 1, !.kind = kind,
                                   !.len = len]],
        id |-> id]

refbuf_addref(s, id) ==
    IF id = NoBuf THEN s ELSE [s EXCEPT !.bufs[id].count = @ + 1]

\* the last release frees the buffer and releases its associated chain; the
\* static blank_meta only has its count taken down
RECURSIVE refbuf_release(_, _)
refbuf_release(s, id) ==
    IF id = NoBuf THEN s
    ELSE IF s.bufs[id].count > 1 \/ id = Blank
    THEN [s EXCEPT !.bufs[id].count = @ - 1]
    ELSE refbuf_release([s EXCEPT !.bufs[id] = FreeBuf], s.bufs[id].associated)

\* refbufs allocated and not yet freed: a metadata refbuf made by
\* mp3_set_title carries its flv and iceblock refbufs with it
LiveRefbufs(bufs) ==
    LET live == {i \in BufIds \ {Blank} : bufs[i].live}
        chained == {i \in live : bufs[i].chain > 0}
    IN Cardinality(live) + 2 * Cardinality(chained)

(***************************************************************************)
(* mp3_set_tag, mp3_set_title, complete_read, mp3_get_no_meta              *)
(***************************************************************************)
\* mp3_set_tag ("title", value) followed by mp3_set_tag (NULL)
mp3_set_tag(s, title_len) ==
    [s EXCEPT !.mp3.url_title = title_len, !.mp3.update_metadata = 1]

\* the new metadata refbuf a (with its flv and iceblock refbufs) takes the
\* place of the one the plugin held
mp3_set_title_install(s, a) ==
    [refbuf_release([a.st EXCEPT !.bufs[a.id].title = s.mp3.published + 1,
                                 !.bufs[a.id].text = s.mp3.url_title,
                                 !.bufs[a.id].chain = 2,
                                 !.mp3.published = @ + 1],
                    s.mp3.metadata)
       EXCEPT !.mp3.metadata = a.id]

MetaSize(len) == ((len - 1) \div 16 + 1) * 16 + 1

mp3_set_title(s) ==
    IF 14 + 2 + s.mp3.url_title > MAX_META_LEN THEN s
    ELSE mp3_set_title_install(
            s, refbuf_new(s, "meta", MetaSize(14 + 2 + s.mp3.url_title)))

\* complete_read, step by step: a block to read into
complete_read_alloc(s) ==
    IF s.mp3.read_data # NoBuf THEN s
    ELSE LET a == refbuf_new(s, "block", QueueBlockSize)
         IN [a.st EXCEPT !.mp3.read_data = a.id, !.mp3.read_count = 0]

\* the pending metadata update
complete_read_title(s) ==
    IF s.mp3.update_metadata # 0
    THEN [mp3_set_title(s) EXCEPT !.mp3.update_metadata = 0]
    ELSE s

\* bytes is what client_read_bytes hands over: no more than read_in bytes
complete_read_bytes(s, bytes) ==
    IF s.mp3.read_count < s.bufs[s.mp3.read_data].len /\ Len(bytes) > 0
    THEN [s EXCEPT !.mp3.read_count = @ + Len(bytes),
                   !.bufs[s.mp3.read_data].data = @ \o bytes]
    ELSE s

complete_read_return(s) ==
    [st |-> s,
     ret |-> IF s.mp3.read_count < s.bufs[s.mp3.read_data].len THEN 0 ELSE 1]

complete_read(s0, bytes) ==
    complete_read_return(
        complete_read_bytes(complete_read_title(complete_read_alloc(s0)),
                            bytes))

mp3_get_no_meta_return_unheld(s, refbuf) ==
    [st |-> [s EXCEPT !.bufs[refbuf].len = s.mp3.read_count,
                      !.bufs[refbuf].serial = s.mp3.blocks + 1,
                      !.mp3.blocks = @ + 1,
                      !.mp3.read_count = 0,
                      !.mp3.read_data = NoBuf,
                      !.bufs[refbuf].associated = s.mp3.metadata,
                      !.bufs[refbuf].flags = @ \cup {"SOURCE_BLOCK_SYNC"}],
     refbuf |-> refbuf]

\* the block handed to the source, which appends it to its queue; NoBuf
\* when the read is not complete
mp3_get_no_meta_return(s, refbuf) ==
    [st |-> refbuf_addref([s EXCEPT !.bufs[refbuf].len = s.mp3.read_count,
                                    !.bufs[refbuf].serial = s.mp3.blocks + 1,
                                    !.mp3.blocks = @ + 1,
                                    !.mp3.read_count = 0,
                                    !.mp3.read_data = NoBuf,
                                    !.bufs[refbuf].associated = s.mp3.metadata,
                                    !.bufs[refbuf].flags =
                                        @ \cup {"SOURCE_BLOCK_SYNC"}],
                          s.mp3.metadata),
     refbuf |-> refbuf]

mp3_get_no_meta_read(r) ==
    IF r.ret = 0 THEN [st |-> r.st, refbuf |-> NoBuf]
    ELSE mp3_get_no_meta_return(r.st, r.st.mp3.read_data)

\* a source whose blocks all end on a frame boundary, or one without
\* format_data: validate_mpeg leaves the block as it is
mp3_get_no_meta(s0, bytes) == mp3_get_no_meta_read(complete_read(s0, bytes))

(***************************************************************************)
(* validate_mpeg, and mp3_get_no_meta for a source client with format_data *)
(***************************************************************************)
\* unprocessed above this is taken as a sign that the stream does not parse
FrameLimit == 8000
\* what a carry-over block has beyond a long carry-over
Growth == 1000

\* mpeg_complete_frames (mpeg_sync, refbuf, 0) on a block of n bytes: the
\* bytes after the last whole frame are counted and cut off the block, or
\* the parser gives up with a negative count
SyncResult(n, unprocessed) ==
    [len |-> IF unprocessed < 0 THEN n ELSE n - unprocessed,
     unprocessed |-> unprocessed]

Fragment_head(s, refbuf, unprocessed) ==
    SubSeq(s.bufs[refbuf].data, 1, unprocessed)

\* memcpy (leftover->data, refbuf->data + refbuf->len, unprocessed)
Fragment(s, refbuf, unprocessed) ==
    SubSeq(s.bufs[refbuf].data, s.bufs[refbuf].len + 1,
           s.bufs[refbuf].len + unprocessed)

validate_mpeg_toomuch_go(s, refbuf, unprocessed) == [st |-> s, ret |-> 0]

\* too much unprocessed: the source goes on if the block holds frames
validate_mpeg_toomuch(s, refbuf, unprocessed) ==
    IF unprocessed > 0 /\ s.bufs[refbuf].len # 0 THEN [st |-> s, ret |-> 0]
    ELSE [st |-> [s EXCEPT !.mp3.source_running = FALSE], ret |-> -1]

\* the metadata block is reached with a frame fragment in hand: the
\* fragment is kept by the parser (mpeg_data_insert)
validate_mpeg_insert(s, refbuf, unprocessed) ==
    LET a == refbuf_new(s, "block", unprocessed)
    IN [st |-> [a.st EXCEPT !.bufs[a.id].data = Fragment(s, refbuf, unprocessed),
                            !.mp3.raw = Append(@, a.id),
                            !.mp3.pos = 0],
        ret |-> IF s.bufs[refbuf].len # 0 THEN 0 ELSE -1]

\* the fragment starts the next block to read into
validate_mpeg_leftover(s, refbuf, unprocessed) ==
    LET a == refbuf_new(s, "block",
                        IF unprocessed < QueueBlockSize THEN QueueBlockSize
                        ELSE unprocessed + Growth)
    IN [st |-> [a.st EXCEPT !.bufs[a.id].data = Fragment(s, refbuf, unprocessed),
                            !.mp3.read_data = a.id,
                            !.mp3.read_count = unprocessed,
                            !.mp3.pos = unprocessed],
        ret |-> IF s.bufs[refbuf].len # 0 THEN 0 ELSE -1]

validate_mpeg_frames(s, refbuf, unprocessed) ==
    IF unprocessed < 0 \/ unprocessed > FrameLimit
    THEN validate_mpeg_toomuch(s, refbuf, unprocessed)
    ELSE IF unprocessed > 0
    THEN IF s.mp3.inline_metadata_interval > 0
         THEN IF s.mp3.inline_metadata_interval <= s.mp3.offset
              THEN validate_mpeg_insert(s, refbuf, unprocessed)
              ELSE validate_mpeg_leftover(
                       [s EXCEPT !.mp3.offset = @ - unprocessed],
                       refbuf, unprocessed)
         ELSE validate_mpeg_leftover(s, refbuf, unprocessed)
    ELSE [st |-> [s EXCEPT !.mp3.pos = 0],
          ret |-> IF s.bufs[refbuf].len # 0 THEN 0 ELSE -1]

\* sync is what mpeg_complete_frames makes of the block
validate_mpeg(s, refbuf, sync) ==
    validate_mpeg_frames([s EXCEPT !.bufs[refbuf].len = sync.len],
                         refbuf, sync.unprocessed)

\* refbuf = source_mp3->read_data; refbuf->len = source_mp3->read_count
mp3_get_no_meta_take(s, refbuf) ==
    [s EXCEPT !.bufs[refbuf].len = s.mp3.read_count,
              !.mp3.read_count = 0,
              !.mp3.read_data = NoBuf]

\* the block is given the metadata of the moment and goes to the queue
mp3_get_no_meta_queue(s, refbuf) ==
    [st |-> refbuf_addref([s EXCEPT !.bufs[refbuf].serial = s.mp3.blocks + 1,
                                    !.mp3.blocks = @ + 1,
                                    !.bufs[refbuf].associated = s.mp3.metadata,
                                    !.bufs[refbuf].flags =
                                        @ \cup {"SOURCE_BLOCK_SYNC"}],
                          s.mp3.metadata),
     refbuf |-> refbuf]

mp3_get_no_meta_validated(v, refbuf) ==
    IF v.ret < 0 THEN [st |-> refbuf_release(v.st, refbuf), refbuf |-> NoBuf]
    ELSE mp3_get_no_meta_queue(v.st, refbuf)

mp3_get_no_meta_block(s, refbuf, unprocessed) ==
    IF s.mp3.mpeg
    THEN mp3_get_no_meta_validated(
             validate_mpeg(s, refbuf,
                           SyncResult(s.bufs[refbuf].len, unprocessed)),
             refbuf)
    ELSE mp3_get_no_meta_queue(s, refbuf)

mp3_get_no_meta_sync_read(r, unprocessed) ==
    IF r.ret = 0 THEN [st |-> r.st, refbuf |-> NoBuf]
    ELSE mp3_get_no_meta_block(mp3_get_no_meta_take(r.st, r.st.mp3.read_data),
                               r.st.mp3.read_data, unprocessed)

\* mp3_get_no_meta when the frame parser leaves unprocessed bytes of the
\* block it is given
mp3_get_no_meta_sync(s0, bytes, unprocessed) ==
    mp3_get_no_meta_sync_read(complete_read(s0, bytes), unprocessed)

(***************************************************************************)
(* A source with inline metadata: parse_icy_metadata, mp3_get_filter_meta  *)
(***************************************************************************)
\* one byte of an upstream: payload ("d"), the length byte of a metadata
\* block ("l") or a byte of its body ("m"); val is the value read when the
\* byte is taken for a length byte, body says what the block it starts holds
Byte(kind, val, id, body) ==
    [kind |-> kind, val |-> val, id |-> id, body |-> body]

\* bytes of a metadata block whose length byte is len_byte
InlineMetaLen_body(len_byte) == len_byte * 16

InlineMetaLen(len_byte) == 1 + (len_byte * 16)

\* what the first byte of build_metadata says of the block
BuildBody(m) ==
    IF m.build_metadata = <<>> THEN "none" ELSE m.build_metadata[1].body

BuildFirst(m) ==
    IF m.build_metadata = <<>> THEN 0 ELSE m.build_metadata[1].val

\* the title a metadata block with this body names: a body "same" is the
\* blank title, "title" a StreamTitle of one character, "tag" another tag
\* ending in ';'; anything else holds no tag
BodyText(body) ==
    CASE body = "same" -> 0
      [] body = "title" -> 1
      [] OTHER -> -1

Identical_never(s) == FALSE

\* memcmp (metadata, source_mp3->metadata->data, meta_len) == 0: the block
\* has the length and the title of the metadata refbuf the plugin holds
\* (text is the strlen of the title a metadata refbuf was made for)
Identical(s) ==
    /\ s.mp3.build_metadata_len = s.bufs[s.mp3.metadata].len
    /\ BodyText(BuildBody(s.mp3)) = s.bufs[s.mp3.metadata].text

parse_icy_metadata(s) ==
    IF s.mp3.build_metadata_len <= 1 \/ Identical(s)
    THEN [st |-> s, ret |-> 0]
    ELSE IF s.mp3.build_metadata_len < 16 \/ s.mp3.build_metadata_len > 4081
    THEN [st |-> s, ret |-> -1]
    ELSE IF BuildFirst(s.mp3) * 16 + 1 # s.mp3.build_metadata_len
    THEN [st |-> s, ret |-> -1]
    ELSE IF BuildBody(s.mp3) = "title"
    THEN [st |-> [s EXCEPT !.mp3.url_title = 1, !.mp3.update_metadata = 1],
          ret |-> 0]
    ELSE IF BuildBody(s.mp3) = "same"
    THEN [st |-> [s EXCEPT !.mp3.url_title = 0, !.mp3.update_metadata = 1],
          ret |-> 0]
    ELSE IF BuildBody(s.mp3) = "tag"
    THEN [st |-> [s EXCEPT !.mp3.update_metadata = 1], ret |-> 0]
    ELSE [st |-> s, ret |-> 0]

\* the while loop of mp3_get_filter_meta works on w: the block data, the
\* index src has reached, the bytes left to look at, refbuf->len, and
\* whether the loop has been left (by break or by the failed parse)
Mp3Block(w) == w.st.mp3.inline_metadata_interval - w.st.mp3.offset

MetadataRemaining(w) ==
    w.st.mp3.build_metadata_len - w.st.mp3.build_metadata_offset

\* build_metadata up to build_metadata_offset, then n bytes from src
BuildCopy(w, n) ==
    SubSeq(w.st.mp3.build_metadata, 1, w.st.mp3.build_metadata_offset)
    \o SubSeq(w.data, w.src + 1, w.src + n)

\* memmove (src, src + skip, bytes)
Memmove(w, skip, bytes) ==
    SubSeq(w.data, 1, w.src)
    \o SubSeq(w.data, w.src + skip + 1, w.src + skip + bytes)
    \o SubSeq(w.data, w.src + bytes + 1, Len(w.data))

\* a metadata block begins at src
filter_new_block(w) ==
    IF w.st.mp3.build_metadata_len # 0 THEN w
    ELSE [w EXCEPT !.st.mp3.build_metadata = <<>>,
                   !.st.mp3.build_metadata_offset = 0,
                   !.st.mp3.build_metadata_len =
                       InlineMetaLen(w.data[w.src + 1].val)]

\* the whole of the metadata block is there
filter_splice(w) ==
    [w EXCEPT !.st.mp3.build_metadata =
                  BuildCopy(w, MetadataRemaining(w) - 1),
              !.bytes = @ - MetadataRemaining(w),
              !.data = Memmove(w, MetadataRemaining(w),
                               w.bytes - MetadataRemaining(w))]

filter_parsed(w, p) ==
    IF p.ret < 0
    THEN [w EXCEPT !.failed = TRUE, !.left = TRUE,
                   !.st.mp3.source_running = FALSE]
    ELSE [w EXCEPT !.st = [p.st EXCEPT !.mp3.offset = 0,
                                       !.mp3.build_metadata_len = 0]]

filter_parse(w) ==
    filter_parsed(w, IF w.st.mp3.build_metadata_len > 1
                     THEN parse_icy_metadata(w.st)
                     ELSE [st |-> w.st, ret |-> 0])

filter_metadata(w) ==
    IF w.bytes < MetadataRemaining(w)
    THEN [w EXCEPT !.st.mp3.build_metadata = BuildCopy(w, w.bytes),
                   !.st.mp3.build_metadata_offset = @ + w.bytes,
                   !.left = TRUE]
    ELSE filter_parse(filter_splice(w))

\* one pass through the body of the loop
filter_pass(w) ==
    IF w.bytes <= Mp3Block(w)
    THEN [w EXCEPT !.len = @ + w.bytes, !.st.mp3.offset = @ + w.bytes,
                   !.left = TRUE]
    ELSE IF Mp3Block(w) # 0
    THEN [w EXCEPT !.src = @ + Mp3Block(w),
                   !.bytes = @ - Mp3Block(w),
                   !.len = @ + Mp3Block(w),
                   !.st.mp3.offset = @ + Mp3Block(w)]
    ELSE filter_metadata(filter_new_block(w))

RECURSIVE filter_loop(_)
filter_loop(w) ==
    IF w.left \/ w.bytes <= 0 THEN w ELSE filter_loop(filter_pass(w))

\* what is left of the block goes to the source with the metadata the
\* plugin holds; nothing goes when the parse failed or no payload is left
filter_return(s, w, refbuf) ==
    IF w.failed \/ w.len <= 0
    THEN [st |-> refbuf_release([w.st EXCEPT !.bufs[refbuf].data = w.data,
                                             !.bufs[refbuf].len = w.len],
                                refbuf),
          refbuf |-> NoBuf]
    ELSE [st |-> refbuf_addref(
                   [w.st EXCEPT !.bufs[refbuf].data = w.data,
                                !.bufs[refbuf].len = w.len,
                                !.bufs[refbuf].serial = s.mp3.blocks + 1,
                                !.mp3.blocks = @ + 1,
                                !.bufs[refbuf].associated = s.mp3.metadata,
                                !.bufs[refbuf].flags =
                                    @ \cup {"SOURCE_BLOCK_SYNC"}],
                   s.mp3.metadata),
          refbuf |-> refbuf]

\* refbuf = source_mp3->read_data; src = refbuf->data;
\* bytes = source_mp3->read_count; refbuf->len = 0
filter_start(s) ==
    [st |-> [s EXCEPT !.mp3.read_data = NoBuf],
     data |-> s.bufs[s.mp3.read_data].data,
     src |-> 0, bytes |-> s.mp3.read_count,
     len |-> 0, failed |-> FALSE, left |-> FALSE]

filter_read(s) ==
    filter_return(s, filter_loop(filter_start(s)), s.mp3.read_data)

mp3_get_filter_meta_read(r) ==
    IF r.ret = 0 THEN [st |-> r.st, refbuf |-> NoBuf] ELSE filter_read(r.st)

\* for a client without format_data: the block is not passed to
\* validate_mpeg
mp3_get_filter_meta(s0, bytes) ==
    mp3_get_filter_meta_read(complete_read(s0, bytes))

\* format_mp3_get_plugin followed by format_mp3_apply_settings for a mount
\* with mp3_meta_interval set; icy_metaint is the upstream's icy-metaint
\* header, 0 when it sends none
\* mpeg: the source client is there and the type is AAC or MPEG, so that
\* plugin->write_buf_to_client is write_mpeg_buf_to_client
format_mp3_get_plugin(s, icy_metaint, mpeg) ==
    LET a == refbuf_new(s, "meta", BlankLen)
    IN [a.st EXCEPT !.mp3 = [NoPlugin EXCEPT
                                !.alive = TRUE,
                                !.mpeg = mpeg,
                                !.source_running = TRUE,
                                !.metadata = a.id,
                                !.inline_metadata_interval = icy_metaint,
                                !.offset = 0,
                                !.interval = IcyInterval]]

format_mp3_free_plugin(s) ==
    LET s1 == refbuf_release(s, s.mp3.metadata)
        s2 == refbuf_release(s1, s.mp3.read_data)
    IN [s2 EXCEPT !.mp3 = [NoPlugin EXCEPT !.published = s.mp3.published,
                                           !.blocks = s.mp3.blocks,
                                           !.mpeg = s.mp3.mpeg]]

\* the source gives up its queue when it is freed
RECURSIVE source_clear_queue(_, _)
source_clear_queue(s, i) ==
    IF i > Len(s.queue) THEN [s EXCEPT !.queue = <<>>]
    ELSE source_clear_queue(refbuf_release(s, s.queue[i]), i + 1)

(***************************************************************************)
(* The listener side: format_mp3_create_client_data, send_icy_metadata,    *)
(* format_mp3_write_buf_to_client, free_mp3_client_data                    *)
(***************************************************************************)
Min(a, b) == IF a < b THEN a ELSE b

\* one byte as the listener's socket receives it: a payload byte of a block
\* (with the title of the metadata the block is associated with), a byte of
\* a metadata block, or the single zero byte sent in place of one
Tok(kind, title, idx, of) == [kind |-> kind, title |-> title, idx |-> idx, of |-> of]

TitleOf(s, blk) ==
    IF s.bufs[blk].associated = NoBuf THEN BlankTitle
    ELSE s.bufs[s.bufs[blk].associated].title

DataToks(s, blk, from, n) ==
    [i \in 1..n |-> Tok("d", TitleOf(s, blk), from + i, s.bufs[blk].serial)]

MetaToks(s, meta, from, n) ==
    IF meta = NoBuf
    THEN [i \in 1..n |-> Tok("z", 0, 0, 0)]
    ELSE [i \in 1..n |-> Tok("m", s.bufs[meta].title, from + i, s.bufs[meta].len)]

\* the interval of a listener whose request has icy-metadata set and no
\* iceblocks header
IcyRequested(s) ==
    IF s.mp3.interval >= 0 THEN s.mp3.interval ELSE ICY_METADATA_INTERVAL

\* the headers the handshake ends with: IceBlocks: 1.1, or icy-metaint:<n>
HandshakeHeaders(iceblocks, interval) ==
    IF iceblocks THEN {[name |-> "IceBlocks", value |-> 0]}
    ELSE IF interval # 0 THEN {[name |-> "icy-metaint", value |-> interval]}
    ELSE {}

\* iceblocks, icy_metadata: what the request of the listener carries; an
\* intro block (content sent ahead of the queue, associated with no
\* metadata) may be handed to it
format_mp3_create_client_data(s, intro, iceblocks, icy_metadata) ==
    LET l == [NoListener EXCEPT
                !.phase = "attached", !.intro = intro,
                !.wants_meta = iceblocks,
                !.interval = IF ~iceblocks /\ icy_metadata
                             THEN IcyRequested(s) ELSE 0,
                !.headers = HandshakeHeaders(
                                iceblocks,
                                IF ~iceblocks /\ icy_metadata
                                THEN IcyRequested(s) ELSE 0)]
    IN IF intro
       THEN LET a == refbuf_new(s, "block", IntroLen)
            IN [a.st EXCEPT !.lst = [l EXCEPT !.refbuf = a.id]]
       ELSE [s EXCEPT !.lst = l]

MetaChanged_first(associated, cached) == associated # NoBuf /\ cached = NoBuf

MetaChanged(associated, cached) == associated # NoBuf /\ associated # cached

SinceAfterInsert_add(l, queue_bytes) == l.since_meta_block + queue_bytes

SinceAfterInsert(l, queue_bytes) == queue_bytes

OffsetAfterPartial_restart(l, ret) == 0

OffsetAfterPartial(l, ret) ==
    IF ret > 0 THEN l.metadata_offset + ret ELSE l.metadata_offset

UnmarkBlank_kept(s) == s

\* client->flags &= ~CLIENT_USING_BLANK_META
UnmarkBlank(s) == [s EXCEPT !.lst.using_blank = FALSE]

\* which metadata send_icy_metadata picks
IcyChoice(s) ==
    LET l == s.lst
        associated == s.bufs[l.refbuf].associated
    IN CASE l.in_metadata -> "resume"
         [] ~l.in_metadata /\ MetaChanged(associated, l.associated) -> "change"
         [] ~l.in_metadata /\ ~MetaChanged(associated, l.associated)
                /\ (associated # NoBuf \/ l.using_blank) -> "zero"
         [] OTHER -> "blank"

IcyMetaLen(s) ==
    LET l == s.lst
        associated == s.bufs[l.refbuf].associated
        choice == IcyChoice(s)
    IN CASE choice = "resume" -> s.bufs[l.associated].len - l.metadata_offset
         [] choice = "change" -> s.bufs[associated].len
         [] choice = "zero" -> 1
         [] OTHER -> BlankLen - l.metadata_offset

IcyBlockLen(s) ==
    Min(s.bufs[s.lst.refbuf].len - s.lst.pos, s.lst.interval)

send_icy_metadata(s, ret) ==
    LET l == s.lst
        refbuf == l.refbuf
        associated == s.bufs[refbuf].associated
        choice == IcyChoice(s)
        meta_len == IcyMetaLen(s)
        meta == CASE choice = "resume" -> l.associated
                  [] choice = "change" -> associated
                  [] choice = "zero" -> NoBuf
                  [] OTHER -> Blank
        start == IF choice \in {"resume", "blank"} THEN l.metadata_offset ELSE 0
        s1 == CASE choice = "change" ->
                     LET a == IF l.using_blank
                              THEN UnmarkBlank(s)
                              ELSE refbuf_release(s, l.associated)
                     IN [refbuf_addref(a, associated) EXCEPT
                            !.lst.associated = associated]
                [] choice = "blank" ->
                     [refbuf_release(s, l.associated) EXCEPT
                            !.lst.using_blank = TRUE,
                            !.lst.associated = Blank]
                [] OTHER -> s
        sent_meta == IF ret <= 0 THEN 0 ELSE Min(ret, meta_len)
        mtoks == MetaToks(s1, meta, start, sent_meta)
    IN IF ret >= meta_len
       THEN LET queue_bytes == ret - meta_len
            IN [s1 EXCEPT
                  !.lst.since_meta_block = SinceAfterInsert(l, queue_bytes),
                  !.lst.pos = @ + queue_bytes,
                  !.lst.queue_pos = @ + queue_bytes,
                  !.lst.in_metadata = FALSE,
                  !.lst.metadata_offset = 0,
                  !.rx = @ \o mtoks \o DataToks(s1, refbuf, l.pos, queue_bytes)]
       ELSE [s1 EXCEPT
                  !.lst.in_metadata = TRUE,
                  !.lst.metadata_offset = OffsetAfterPartial(l, ret),
                  !.rx = @ \o mtoks]

MetaDue_unset(l) == l.interval = l.since_meta_block

MetaDue(l) == l.interval # 0 /\ l.interval = l.since_meta_block

WriteLen(s) ==
    LET l == s.lst
        len == s.bufs[l.refbuf].len - l.pos
        cut == IF l.interval # 0 /\ len > l.interval - l.since_meta_block
               THEN l.interval - l.since_meta_block ELSE len
    IN Min(cut, SendCap)

format_mp3_write_buf_to_client(s, ret) ==
    LET l == s.lst
    IN IF MetaDue(l) THEN send_icy_metadata(s, ret)
       ELSE IF WriteLen(s) # 0 /\ ret > 0
       THEN [s EXCEPT !.lst.since_meta_block = @ + ret,
                      !.lst.pos = @ + ret,
                      !.lst.queue_pos = @ + ret,
                      !.rx = @ \o DataToks(s, l.refbuf, l.pos, ret)]
       ELSE s

\* iceblock->len of the block mp3_set_title makes: the two length bytes,
\* "\0mode=updinfo\n", "title=...\n" and the closing nul
IceMetaLen == 2 + 14 + (7 + TitleLen) + 1

\* refbuf->associated != client_mpg->associated
IceChanged(s) == s.bufs[s.lst.refbuf].associated # s.lst.associated

IceMeta_any(s) ==
    IF s.bufs[s.lst.refbuf].associated # NoBuf
           /\ s.bufs[s.bufs[s.lst.refbuf].associated].chain = 2
    THEN s.bufs[s.lst.refbuf].associated ELSE NoBuf

\* meta && meta->associated && meta->associated->associated
IceMeta(s) ==
    IF IceChanged(s) /\ s.bufs[s.lst.refbuf].associated # NoBuf
                    /\ s.bufs[s.bufs[s.lst.refbuf].associated].chain = 2
    THEN s.bufs[s.lst.refbuf].associated ELSE NoBuf

\* skip: what connection_bufs_append gives after the length bytes
IceSkip(s) == (IF IceMeta(s) = NoBuf THEN 0 ELSE IceMetaLen) + 2

IceLen(s) == IceSkip(s) + s.bufs[s.lst.refbuf].len

\* lengthbytes[0] = ((refbuf->len+2) >> 8) & 0x7F and
\* lengthbytes[1] = (refbuf->len+2) & 0xFF
lengthbytes(len) == <<((len + 2) \div 256) % 128, (len + 2) % 256>>

\* the vector: the iceblock metadata if it is new, lengthbytes, the block;
\* a length token carries the value of its byte
IceVector(s) ==
    (IF IceMeta(s) = NoBuf THEN <<>>
     ELSE [i \in 1..IceMetaLen |->
              Tok("i", s.bufs[IceMeta(s)].title, i, IceMetaLen)])
    \o [i \in 1..2 |-> Tok("l", lengthbytes(s.bufs[s.lst.refbuf].len)[i], i,
                           s.bufs[s.lst.refbuf].len + 2)]
    \o DataToks(s, s.lst.refbuf, 0, s.bufs[s.lst.refbuf].len)

\* the whole vector has gone out: the listener is done with the block
send_iceblock_done(s) ==
    IF IceChanged(s)
    THEN [refbuf_release(refbuf_addref(s, s.bufs[s.lst.refbuf].associated),
                         s.lst.associated)
            EXCEPT !.lst.pos = s.bufs[s.lst.refbuf].len,
                   !.lst.associated = s.bufs[s.lst.refbuf].associated,
                   !.lst.metadata_offset = 0]
    ELSE [s EXCEPT !.lst.pos = s.bufs[s.lst.refbuf].len,
                   !.lst.metadata_offset = 0]

\* if (client_mpg->metadata_offset > skip)
\*     client->queue_pos += (client_mpg->metadata_offset - skip);
IceQueuePos(s, ret) ==
    IF s.lst.metadata_offset + ret > IceSkip(s)
    THEN s.lst.queue_pos + (s.lst.metadata_offset + ret - IceSkip(s))
    ELSE s.lst.queue_pos

send_iceblock_to_client(s, ret) ==
    IF ret <= 0 THEN s
    ELSE IF s.lst.metadata_offset + ret >= IceLen(s)
    THEN [send_iceblock_done(s) EXCEPT
            !.lst.queue_pos = IceQueuePos(s, ret),
            !.rx = @ \o SubSeq(IceVector(s), s.lst.metadata_offset + 1,
                               s.lst.metadata_offset + ret)]
    ELSE [s EXCEPT
            !.lst.metadata_offset = @ + ret,
            !.lst.queue_pos = IceQueuePos(s, ret),
            !.rx = @ \o SubSeq(IceVector(s), s.lst.metadata_offset + 1,
                               s.lst.metadata_offset + ret)]

\* FLV listeners are left out
write_mpeg_buf_to_client(s, ret) ==
    IF s.lst.wants_meta THEN send_iceblock_to_client(s, ret)
    ELSE format_mp3_write_buf_to_client(s, ret)

WriterIsMpeg_always(s) == TRUE

\* plugin->write_buf_to_client
WriterIsMpeg(s) == s.mp3.mpeg

write_buf_to_client(s, ret) ==
    IF WriterIsMpeg(s) THEN write_mpeg_buf_to_client(s, ret)
    ELSE format_mp3_write_buf_to_client(s, ret)

ReleaseCached_always(s) == refbuf_release(s, s.lst.associated)

ReleaseCached(s) ==
    IF ~s.lst.using_blank THEN refbuf_release(s, s.lst.associated) ELSE s

free_mp3_client_data(s) ==
    [ReleaseCached(s) EXCEPT !.lst.associated = NoBuf]

\* the send loop of the source puts the listener on the block that holds
\* the next byte: the head of the queue at first, then block after block
queue_advance(s) ==
    LET l == s.lst
        next == IF l.refbuf = NoBuf THEN 1 ELSE s.bufs[l.refbuf].serial + 1
    IN IF l.refbuf # NoBuf /\ l.pos < s.bufs[l.refbuf].len
       THEN [st |-> s, ok |-> TRUE]
       ELSE IF next > Len(s.queue) THEN [st |-> s, ok |-> FALSE]
       ELSE LET s1 == refbuf_addref(s, s.queue[next])
                s2 == refbuf_release(s1, l.refbuf)
            IN [st |-> [s2 EXCEPT !.lst.refbuf = s.queue[next], !.lst.pos = 0],
                ok |-> TRUE]

\* the results connection_bufs_send and client_send_bytes can give: an
\* error, nothing, a part of the metadata (half of a block that is begun,
\* all but the last byte of one that is resumed), the metadata alone, the
\* metadata and one payload byte, everything
IceSendResults(s) ==
    {-1, 0, 1, IceLen(s) - s.lst.metadata_offset - 1,
     IceLen(s) - s.lst.metadata_offset}
        \cap (-1..(IceLen(s) - s.lst.metadata_offset))

IcySendResults(s) ==
    LET meta_len == IF MetaDue(s.lst) THEN IcyMetaLen(s) ELSE 0
        data_len == IF MetaDue(s.lst) THEN IcyBlockLen(s) ELSE WriteLen(s)
        part == IF s.lst.in_metadata /\ s.lst.metadata_offset > 0
                THEN meta_len - 1 ELSE meta_len \div 2
    IN {-1, 0, part, meta_len, meta_len + 1, meta_len + data_len}
          \cap (-1..(meta_len + data_len))

SendResults(s) ==
    IF WriterIsMpeg(s) /\ s.lst.wants_meta THEN IceSendResults(s)
    ELSE IcySendResults(s)

(***************************************************************************)
(* Actions of the relay subsystem                                          *)
(***************************************************************************)
vars == <<relayVars, icyVars, slaveVars>>

\* a worker runs the process callback of a client that is due; a callback
\* that returns -1 has the client released
Due(s, c) == [s EXCEPT !.client[c].sched = 0]

Scheduled(c, ops) ==
    /\ client[c].exists
    /\ client[c].active
    /\ client[c].ops = ops

Finish(res, c) ==
    /\ IF res.ret = -1 THEN Install(relay_release(res.st, c)) ELSE Install(res.st)
    /\ UNCHANGED ctlVars

\* inputs are enumerated only where the callback reads them
OnDemandInputs(c) ==
    LET r == client[c].shared_data
        n == IF relay[r].new_details # NoRelay THEN relay[r].new_details ELSE r
    IN IF relay[n].on_demand = 1 THEN BOOLEAN ELSE {FALSE}

RelayInitialise(c) ==
    /\ Scheduled(c, "init")
    /\ \E fallback_def \in OnDemandInputs(c) :
       \E fallback_busy \in (IF fallback_def THEN BOOLEAN ELSE {FALSE}) :
          Finish(relay_initialise(Due(State, c), c, fallback_def, fallback_busy), c)

RelayStartup(c) ==
    /\ Scheduled(c, "startup")
    /\ \E fallback_def \in OnDemandInputs(c) :
       \E fallback_busy \in (IF fallback_def THEN BOOLEAN ELSE {FALSE}) :
          Finish(relay_startup(Due(State, c), c, fallback_def, fallback_busy), c)

RelayRead(c) ==
    /\ Scheduled(c, "read")
    /\ LET src == relay[client[c].shared_data].source
       IN IF source[src].running
          THEN \E die \in BOOLEAN :
               \E tmo \in (IF die THEN BOOLEAN ELSE {FALSE}) :
               \E big \in OnDemandInputs(c) :
                  Finish(relay_read(Due(State, c), c, FALSE, die, tmo, big, FALSE), c)
          ELSE \E quick \in (IF client[c].con_time /\ ~source[src].terminating
                             THEN BOOLEAN ELSE {FALSE}) :
               \E late \in (IF source[src].listeners > 0
                            THEN BOOLEAN ELSE {FALSE}) :
                  Finish(relay_read(Due(State, c), c, quick, FALSE, FALSE, FALSE, late), c)

StartRelayStreamBegin(c) ==
    /\ thr[c].pc = "start"
    /\ Install(start_relay_stream_begin(State, c))
    /\ UNCHANGED ctlVars

OpenRelayConnection(c) ==
    /\ thr[c].pc = "connect"
    /\ \E a \in upstream :
       \E complete_ok \in (IF a.kind = "ok" THEN BOOLEAN ELSE {FALSE}) :
          Install(open_relay_connection(State, c, a.kind, a.uri, complete_ok))
    /\ UNCHANGED ctlVars

StartRelayStreamFinish(c) ==
    /\ thr[c].pc = "finish"
    /\ Install(start_relay_stream_finish(State, c))
    /\ UNCHANGED ctlVars

StartRelayStreamEnd(c) ==
    /\ thr[c].pc = "done"
    /\ Install(start_relay_stream_end(State, c))
    /\ UNCHANGED ctlVars

(***************************************************************************)
(* Configurations                                                          *)
(***************************************************************************)
MountNames == <<"/a", "/b", "/c", "/d", "/e", "/f", "/g", "/h">>

Master(ip, port, mount) == [ip |-> ip, port |-> port, mount |-> mount]

Candidate(localmount, masters, on_demand) ==
    [localmount |-> localmount, masters |-> masters, mp3metadata |-> 1,
     on_demand |-> on_demand, interval |-> CfgInterval]

EmptyState ==
    [relay |-> [i \in RelayIds |-> FreeRelay], list |-> <<>>,
     client |-> [i \in ClientIds |-> NoClient],
     source |-> [i \in ClientIds |-> NoSourceRec],
     thr |-> [i \in ClientIds |-> NoThread],
     rcon |-> 0, gsrc |-> 0, slow |-> 0, ovf |-> FALSE]

\* the relays of the configuration file, one master each
StartConfig ==
    [i \in 1..StartRelays |->
        Candidate(MountNames[i], <<Master("m1", 8000, MountNames[i])>>, 0)]

\* the slave thread has made its first update_relays pass over the
\* configured relays
InitStart ==
    /\ Install_init(update_relays(EmptyState, StartConfig))
    /\ ice_running = TRUE
    /\ upstream = {a \in Answers : a.kind = "refused"}
    /\ passes = 0
    /\ last_cands = <<>>
    /\ IcyOff
    /\ SlaveOff

NextStart ==
    \E c \in ClientIds :
        \/ RelayInitialise(c)
        \/ RelayStartup(c)
        \/ RelayRead(c)
        \/ StartRelayStreamBegin(c)
        \/ OpenRelayConnection(c)
        \/ StartRelayStreamFinish(c)
        \/ StartRelayStreamEnd(c)

SpecStart == InitStart /\ [][NextStart]_vars

\* one relay for each of two mounts, each with two masters
OpenConfig ==
    [i \in 1..2 |->
        Candidate(MountNames[i], <<Master("m1", 8000, MountNames[i]),
                                   Master("m2", 8000, MountNames[i])>>, 0)]

\* runs of one relay in which the upstream servers can give every kind of
\* answer
InitOpen ==
    /\ Install_init(update_relays(EmptyState, SubSeq(OpenConfig, 1, 1)))
    /\ ice_running = TRUE
    /\ upstream = Answers
    /\ passes = 0
    /\ last_cands = <<>>
    /\ IcyOff
    /\ SlaveOff

SpecOpen == InitOpen /\ [][NextStart]_vars

\* runs in which every connection attempt is answered by a 302 to an
\* http:// location: every master is an endless redirect cycle
InitLoop ==
    /\ Install_init(update_relays(EmptyState, OpenConfig))
    /\ ice_running = TRUE
    /\ upstream = {a \in Answers : a.kind = "redirect" /\ a.uri.scheme = "http://"}
    /\ passes = 0
    /\ last_cands = <<>>
    /\ IcyOff
    /\ SlaveOff

SpecLoop == InitLoop /\ [][NextStart]_vars

(***************************************************************************)
(* The diff runs: the slave thread and the stream-list task hand candidate *)
(* lists to update_relays while the relays run                             *)
(***************************************************************************)
DiffCandidates ==
    {Candidate("/a", <<Master("m1", 8000, "/a")>>, 0),
     Candidate("/a", <<Master("m1", 8001, "/a")>>, 0),
     Candidate("/b", <<Master("m1", 8000, "/b")>>, 0)}

DiffLists ==
    {<<>>} \cup {<<x>> : x \in DiffCandidates}
           \cup {<<x, y>> : x \in {c \in DiffCandidates : c.localmount = "/a"},
                            y \in {c \in DiffCandidates : c.localmount = "/b"}}
           \cup {<<Candidate("/a", <<Master("m1", 8000, "/a")>>, 0),
                   Candidate("/a", <<Master("m1", 8001, "/a")>>, 0)>>}

Allocated(s) == {i \in RelayIds : s.relay[i].alloc}

UpdateRelays(cands) ==
    /\ passes < MaxPasses
    /\ LET s == update_relays(State, cands)
       IN /\ ~s.ovf
          /\ Cardinality(Allocated(s)) <= MaxRelayObjs
          /\ Install(s)
    /\ passes' = passes + 1
    /\ last_cands' = cands
    /\ UNCHANGED <<ice_running, upstream, icyVars, slaveVars>>

InitDiff ==
    /\ Install_init(EmptyState)
    /\ ice_running = TRUE
    /\ upstream = {a \in Answers : a.kind = "ok"}
    /\ passes = 0
    /\ last_cands = <<>>
    /\ IcyOff
    /\ SlaveOff

NextDiff ==
    \/ \E cands \in DiffLists : UpdateRelays(cands)
    \/ \E c \in ClientIds :
        \/ RelayInitialise(c)
        \/ RelayStartup(c)
        \/ RelayRead(c)
        \/ StartRelayStreamBegin(c)
        \/ OpenRelayConnection(c)
        \/ StartRelayStreamFinish(c)
        \/ StartRelayStreamEnd(c)

SpecDiff == InitDiff /\ [][NextDiff]_vars

(***************************************************************************)
(* Actions of the source and of the listener of one mount                  *)
(***************************************************************************)
TitleLens == {TitleLen}

MetadataUpdate(title_len) ==
    /\ mp3.alive
    /\ mp3.update_metadata = 0
    /\ mp3.published < MaxTitles
    /\ InstallIcy(mp3_set_tag(Icy, title_len))
    /\ UNCHANGED <<relayVars, inlineVars, slaveVars>>

\* what client_read_bytes can give: nothing, all that is asked for, or one
\* byte less
ReadResults ==
    LET read_in == QueueBlockSize - mp3.read_count
    IN {0, read_in - 1, read_in} \cap (0..read_in)

\* the payload bytes of a stream without inline metadata
Octets(n) == [i \in 1..n |-> Byte("d", 0, 0, "none")]

SourceRead(bytes) ==
    /\ mp3.alive
    /\ mp3.inline_metadata_interval = 0
    /\ mp3.blocks < MaxBlocks
    /\ LET r == mp3_get_no_meta(Icy, Octets(bytes))
       IN InstallIcy(IF r.refbuf = NoBuf THEN r.st
                     ELSE [r.st EXCEPT !.queue = Append(@, r.refbuf)])
    /\ UNCHANGED <<relayVars, inlineVars, slaveVars>>

ListenerAttach(intro, iceblocks, icy_metadata) ==
    /\ mp3.alive
    /\ lst.phase = "none"
    /\ InstallIcy(format_mp3_create_client_data(Icy, intro, iceblocks,
                                                icy_metadata))
    /\ UNCHANGED <<relayVars, inlineVars, slaveVars>>

ListenerWrite ==
    /\ mp3.alive
    /\ lst.phase = "attached"
    /\ LET a == queue_advance(Icy)
       IN /\ a.ok
          /\ \E ret \in SendResults(a.st) :
                InstallIcy(write_buf_to_client(a.st, ret))
    /\ UNCHANGED <<relayVars, inlineVars, slaveVars>>

ListenerFree ==
    /\ lst.phase = "attached"
    /\ LET s1 == free_mp3_client_data(Icy)
           s2 == refbuf_release(s1, lst.refbuf)
       IN InstallIcy([s2 EXCEPT !.lst = [NoListener EXCEPT !.phase = "freed"]])
    /\ UNCHANGED <<relayVars, inlineVars, slaveVars>>

SourceFree ==
    /\ mp3.alive
    /\ InstallIcy(source_clear_queue(format_mp3_free_plugin(Icy), 1))
    /\ UNCHANGED <<relayVars, inlineVars, slaveVars>>

InitIcy ==
    /\ Install_init(EmptyState)
    /\ ice_running = TRUE
    /\ upstream = {}
    /\ passes = 0
    /\ last_cands = <<>>
    /\ InstallIcy_init(format_mp3_get_plugin(IcyOffState, 0, TRUE))
    /\ NoWire
    /\ SlaveOff

NextIcy ==
    \/ \E title_len \in TitleLens : MetadataUpdate(title_len)
    \/ \E bytes \in ReadResults : SourceRead(bytes)
    \/ \E intro \in BOOLEAN : ListenerAttach(intro, FALSE, TRUE)
    \/ ListenerWrite
    \/ ListenerFree
    \/ SourceFree

SpecIcy == InitIcy /\ [][NextIcy]_vars

(***************************************************************************)
(* A source whose upstream sends inline metadata                           *)
(***************************************************************************)
Kinds == {"none", "same", "tag", "title"}

\* the length byte of a metadata block of each kind
LenByte(kind) ==
    CASE kind = "none" -> 0
      [] kind = "title" -> 2
      [] OTHER -> 1

MetaBlock(j, kind) ==
    <<Byte("l", LenByte(kind), j, kind)>>
    \o [i \in 1..(16 * LenByte(kind)) |-> Byte("m", 0, j, kind)]

PayloadRun(from, n) ==
    [i \in 1..n |-> Byte("d", (from + i) % 2, from + i, "none")]

\* interval bytes of payload, then a metadata block, and so on; the stream
\* ends with interval bytes of payload
RECURSIVE Interleave(_, _, _)
Interleave(interval, kinds, j) ==
    IF j > Len(kinds) THEN PayloadRun((j - 1) * interval, interval)
    ELSE PayloadRun((j - 1) * interval, interval)
         \o MetaBlock(j, kinds[j])
         \o Interleave(interval, kinds, j + 1)

\* what client_read_bytes can give: nothing, one byte, or all that is asked
\* for
InlineReadResults ==
    LET read_in == IF mp3.read_data = NoBuf THEN QueueBlockSize
                   ELSE QueueBlockSize - mp3.read_count
    IN {0, 1, Min(read_in, Len(wire) - wire_pos)}

\* source_read on a mount nobody listens to: a block the plugin returns is
\* queued and leaves the queue again
SourceReadInline(n) ==
    /\ mp3.alive
    /\ mp3.source_running
    /\ mp3.inline_metadata_interval > 0
    /\ wire_pos < Len(wire)
    /\ LET r == mp3_get_filter_meta(Icy, SubSeq(wire, wire_pos + 1,
                                                wire_pos + n))
       IN IF r.refbuf = NoBuf
          THEN InstallIcy(r.st) /\ out' = out
          ELSE /\ InstallIcy(refbuf_release(r.st, r.refbuf))
               /\ out' = out \o SubSeq(r.st.bufs[r.refbuf].data, 1,
                                       r.st.bufs[r.refbuf].len)
    /\ wire_pos' = wire_pos + n
    /\ UNCHANGED <<relayVars, wire, slaveVars>>

InitFilter ==
    /\ Install_init(EmptyState)
    /\ ice_running = TRUE
    /\ upstream = {}
    /\ passes = 0
    /\ last_cands = <<>>
    /\ \E interval \in 1..MaxInline, kinds \in [1..InlineBlocks -> Kinds] :
          /\ wire = Interleave(interval, kinds, 1)
          /\ InstallIcy_init(format_mp3_get_plugin(IcyOffState, interval, TRUE))
    /\ wire_pos = 0
    /\ out = <<>>
    /\ SlaveOff

NextFilter == \E n \in InlineReadResults : SourceReadInline(n)

SpecFilter == InitFilter /\ [][NextFilter]_vars

(***************************************************************************)
(* Properties of the start-up of relays                                    *)
(***************************************************************************)
\* relay-open tasks in flight: between the increment of relays_connecting
\* in relay_startup and the decrement at the end of start_relay_stream
InFlight == {c \in ClientIds : thr[c].pc # "idle"}

\* C1 as stated: at no time are more than 3 relay-open tasks in flight
C1_AtMostThreeConnecting == Cardinality(InFlight) <= 3

\* C1 amended: relay_startup refuses a start only when relays_connecting is
\* above 3, so at no time are more than 4 relay-open tasks in flight, and
\* relays_connecting never exceeds 4
C1_AtMostFourConnecting ==
    /\ Cardinality(InFlight) <= ConnectingCap + 1
    /\ relays_connecting <= ConnectingCap + 1

\* four opens are in flight and a fifth relay has been told to wait 200 ms
C1_FifthRelayWaits ==
    /\ Cardinality(InFlight) = ConnectingCap + 1
    /\ \E c \in ClientIds :
          /\ client[c].ops = "startup"
          /\ client[c].active
          /\ client[c].sched = 200

(***************************************************************************)
(* Properties of open_relay_connection                                     *)
(***************************************************************************)
OtherFailures == {"connect", "response", "message", "scheme"}

\* C8 as stated: giving up at the redirect limit is reported with an error
\* distinct from the other failure outcomes; here for two consecutive
\* masters of one open_relay call, the first lost to another failure and
\* the second to the redirect limit
C8_DistinctLimitError ==
    [][\A c \in ClientIds :
          (thr[c].exit \in OtherFailures /\ thr'[c].exit = "limit")
              => thr'[c].ret # thr[c].ret]_vars

\* C8 amended: open_relay_connection makes at most 10 connection attempts
\* for one master, whatever the upstream answers (it stops when the tenth
\* answer is a 302 as well), and the exhausted limit is reported as every
\* other failure is: return value -1
C8_RedirectLimitSameError ==
    \A c \in ClientIds :
        /\ thr[c].redirects <= RedirectLimit
        /\ thr[c].pc = "connect" => thr[c].redirects < RedirectLimit
        /\ thr[c].exit \in OtherFailures \cup {"limit"} => thr[c].ret = -1
        /\ (thr[c].pc = "finish" /\ thr[c].exit = "limit")
              => thr[c].redirects = RedirectLimit

\* open_relay has returned after its last master used up the redirects
C8_LimitReached ==
    \E c \in ClientIds :
        /\ thr[c].pc = "finish"
        /\ thr[c].exit = "limit"
        /\ thr[c].redirects = RedirectLimit
        /\ thr[c].ret = -1

\* C10: when every master answers with an endless 302 cycle, each attempt
\* is abandoned after 10 redirects, every master is left with skip=1 by the
\* attempt, and the relay goes back to relay_startup (never to
\* relay_initialise) with its wake-up relay.interval seconds away
C10_RedirectLoopBackoff ==
    \A c \in ClientIds :
        client[c].exists =>
            LET R == relay[client[c].shared_data]
            IN /\ thr[c].pc \in {"finish", "done"} =>
                     /\ thr[c].failed = 1
                     /\ thr[c].exit = "limit"
                     /\ thr[c].redirects = RedirectLimit
                     /\ \A m \in DOMAIN R.masters : R.masters[m].skip = 1
               /\ (client[c].ops = "startup" /\ client[c].active) =>
                     client[c].sched = R.interval * 1000
               /\ client[c].ops = "init" => R.source = NoSource

\* a relay is back in relay_startup after an attempt, waiting for interval
C10_BackAtStartup ==
    \E c \in ClientIds :
        /\ client[c].exists
        /\ client[c].ops = "startup"
        /\ client[c].active
        /\ client[c].sched = CfgInterval * 1000
        /\ relay[client[c].shared_data].source # NoSource
        /\ ~client[c].con_time

(***************************************************************************)
(* Properties of the relay diff                                            *)
(***************************************************************************)
Range(f) == {f[i] : i \in DOMAIN f}

Details(r) ==
    [localmount |-> r.localmount,
     masters |-> [k \in DOMAIN r.masters |->
                    [ip |-> r.masters[k].ip, port |-> r.masters[k].port,
                     mount |-> r.masters[k].mount]],
     mp3metadata |-> r.mp3metadata]

LiveSet(s) == {Details(s.relay[r]) : r \in Range(s.list)}

\* the live list handed back to update_relays as its own candidate list
SelfCandidates ==
    [j \in DOMAIN global_relays |->
        LET r == relay[global_relays[j]]
        IN [Details(r) EXCEPT !.masters = r.masters] @@
           [on_demand |-> r.on_demand, interval |-> r.interval]]

\* C7: after a pass of update_relays the live relays are the candidates of
\* that pass, a second pass with the same candidate list leaves the live
\* relay set (by localmount and master details) as it is, and the pass of
\* the live set against itself installs no relay client, sets no
\* new_details and marks no relay for cleanup.
C7_DiffIdempotent ==
    /\ passes > 0 =>
         LET twice == update_relays(State, last_cands)
         IN /\ LiveSet(State) = {Details(relay_copy(x)) : x \in Range(last_cands)}
            /\ ~twice.ovf => LiveSet(twice) = LiveSet(State)
    /\ LET self == update_relays(State, SelfCandidates)
       IN /\ ~self.ovf
          /\ self.client = client
          /\ self.relay = relay
          /\ Range(self.list) = Range(global_relays)

C7_AfterRestartDiff ==
    /\ passes > 1
    /\ \E r \in RelayIds :
          /\ relay[r].alloc
          /\ relay[r].new_details \in Range(global_relays)
          /\ relay[r].source # NoSource
          /\ source[relay[r].source].running

\* the steps of a relay client that the restart after a diff is made of
C9_DetailsInstalled ==
    \A r \in RelayIds :
        (/\ passes' # passes
         /\ r \in Range(global_relays)
         /\ r \notin Range(global_relays')
         /\ relay'[r].cleanup = 0)
        => /\ relay'[r].new_details \in Range(global_relays')
           /\ relay'[relay'[r].new_details].localmount = relay[r].localmount
           /\ relay_has_changed(relay'[relay'[r].new_details], relay[r])

C9_CycleEndsOnVisit ==
    \A c \in ClientIds :
        LET old == client[c].shared_data
        IN (/\ client[c].exists /\ client[c].ops = "read"
            /\ old # NoRelay
            /\ relay[old].new_details # NoRelay
            /\ relay[old].source # NoSource
            /\ source[relay[old].source].running
            /\ client'[c].shared_data = relay[old].new_details)
           => ~source'[relay[old].source].running

C9_OpensNewDetails ==
    \A c \in ClientIds :
        /\ (thr[c].pc = "idle" /\ thr'[c].pc = "start")
             => relay'[client'[c].shared_data].new_details = NoRelay
        /\ (thr[c].pc = "start" /\ thr'[c].pc = "connect")
             => LET m == relay'[client'[c].shared_data].masters[thr'[c].master]
                IN thr'[c].server = m.ip /\ thr'[c].port = m.port

C9_OneSourcePerMount ==
    \A x, y \in ClientIds :
        (source'[x].exists /\ source'[y].exists
            /\ source'[x].mount = source'[y].mount) => x = y

\* C9: when a diff changes the master details of an existing connected
\* relay, new_details is installed on the existing relay, the connected
\* cycle of the relay ends on the next visit of its client, the following
\* start-up opens against the new master details, and never two sources
\* exist for one localmount.
C9_ChangedRelayRestarts ==
    [][/\ C9_DetailsInstalled
       /\ C9_CycleEndsOnVisit
       /\ C9_OpensNewDetails
       /\ C9_OneSourcePerMount]_vars

(***************************************************************************)
(* Properties of the ICY listener                                          *)
(***************************************************************************)
IsData(i) == rx[i].kind = "d"
IsMetaEnd(i) == rx[i].kind = "m" /\ rx[i].idx = rx[i].of
InsertStart(i) == rx[i].kind = "z" \/ (rx[i].kind = "m" /\ rx[i].idx = 1)
InsertEnd(i) == rx[i].kind = "z" \/ IsMetaEnd(i)
PayloadBefore(i) == Cardinality({j \in 1..(i - 1) : IsData(j)})
Payload == PayloadBefore(Len(rx) + 1)
Inserts == Cardinality({j \in DOMAIN rx : InsertEnd(j)})

\* never more than interval payload bytes in a row
RunsBounded ==
    \A i \in DOMAIN rx :
        i + IcyInterval <= Len(rx) => \E j \in i..(i + IcyInterval) : ~IsData(j)

\* C2 as stated: after N payload bytes exactly floor(N/I) metadata inserts
\* have been emitted, and no more than I payload bytes lie between inserts.
C2_FloorInserts ==
    /\ Inserts = Payload \div IcyInterval
    /\ RunsBounded

\* C2: the N payload bytes delivered are interval bytes for every insert
\* emitted plus since_meta_block, which is at most the interval, so
\* floor(N/I) inserts have been emitted, or one less while the insert due
\* after the last payload byte has not been completed; no more than I
\* payload bytes lie between inserts.
C2_InsertsAccountForPayload ==
    /\ lst.phase = "attached" =>
          /\ Payload = Inserts * lst.interval + lst.since_meta_block
          /\ lst.since_meta_block \in 0..lst.interval
    /\ IF Payload % IcyInterval = 0 /\ Payload > 0
       THEN Inserts \in {Payload \div IcyInterval - 1, Payload \div IcyInterval}
       ELSE Inserts = Payload \div IcyInterval
    /\ RunsBounded

C2_InsertPending ==
    /\ lst.phase = "attached"
    /\ Payload = 2 * IcyInterval
    /\ Inserts = 1
    /\ lst.since_meta_block = lst.interval
    /\ ~lst.in_metadata

\* the k-th payload byte of the listener's walk: the intro block when the
\* walk began there, then the queued blocks in order
WalkByte(first, k) ==
    IF first = 0 /\ k <= IntroLen THEN <<0, k>>
    ELSE LET n == IF first = 0 THEN k - IntroLen - 1 ELSE k - 1
         IN <<1 + (n \div QueueBlockSize), 1 + (n % QueueBlockSize)>>

\* C3: the bytes received are the payload bytes of the blocks in order,
\* with one metadata insert (one complete metadata block or one zero byte)
\* after exactly every interval payload bytes, whatever the socket took of
\* each write, and since_meta_block stays within 0..interval.
C3_CadenceByteExact ==
    /\ lst.phase = "attached" => lst.since_meta_block \in 0..lst.interval
    /\ \A i \in DOMAIN rx :
         LET before == PayloadBefore(i)
             due == before > 0 /\ before % IcyInterval = 0
         IN /\ IsData(i) =>
                 /\ IF due THEN i > 1 /\ InsertEnd(i - 1)
                    ELSE i = 1 \/ IsData(i - 1)
                 /\ <<rx[i].of, rx[i].idx>> = WalkByte(rx[1].of, before + 1)
            /\ InsertStart(i) => due /\ IsData(i - 1)
            /\ (rx[i].kind = "m" /\ rx[i].idx > 1) =>
                 i > 1 /\ rx[i - 1] = [rx[i] EXCEPT !.idx = @ - 1]

C3_StoppedInsideBlock ==
    /\ lst.phase = "attached"
    /\ lst.in_metadata
    /\ lst.metadata_offset > 0
    /\ rx[Len(rx)].kind = "m"
    /\ \E i \in DOMAIN rx : IsMetaEnd(i)
    /\ Payload = 2 * IcyInterval

\* the metadata blocks received in full, as made by mp3_set_title
Published(i) == IsMetaEnd(i) /\ rx[i].title >= 1

PublishedAt == {i \in DOMAIN rx : Published(i)}

InOrder ==
    \A i, j \in PublishedAt : i < j => rx[i].title <= rx[j].title

\* C4 as stated: the metadata blocks are received in the order of their
\* publication, none after a later one and none skipped.
C4_NoneSkipped ==
    /\ InOrder
    /\ \A i, j \in PublishedAt :
         i < j =>
            \A t \in (rx[i].title + 1)..(rx[j].title - 1) :
                \E k \in PublishedAt : i < k /\ k < j /\ rx[k].title = t

\* C4: metadata blocks are received in the order of their publication, none
\* after a later one, and after every insert the listener has been sent the
\* metadata of the block whose payload follows; a block that was replaced
\* before the next insert point of the listener is not sent to it.
C4_InOrderAndCurrent ==
    /\ InOrder
    /\ \A i \in DOMAIN rx :
         (IsData(i) /\ i > 1 /\ InsertEnd(i - 1)) =>
            LET M == {k \in 1..(i - 1) : IsMetaEnd(k)}
            IN /\ M # {}
               /\ \E k \in M : /\ \A m \in M : m <= k
                                /\ rx[k].title = rx[i].title

C4_SecondSkipped ==
    /\ \E i, j \in PublishedAt :
          /\ i < j
          /\ rx[i].title = 1
          /\ rx[j].title = 3
    /\ \A k \in DOMAIN rx : rx[k].title # 2

\* C6: once the plugin of the source and the client data of the listener
\* have been freed no refbuf is left allocated, and blank_meta is never
\* released: its count stays 1.
C6_NoLeakBlankKept ==
    /\ (~mp3.alive /\ lst.phase # "attached") => LiveRefbufs(refbufs) = 0
    /\ refbufs[Blank].live
    /\ refbufs[Blank].count = 1

C6_AllFreedAfterUse ==
    /\ ~mp3.alive
    /\ lst.phase = "freed"
    /\ mp3.published >= 2
    /\ \E i \in DOMAIN rx : IsMetaEnd(i) /\ rx[i].title = BlankTitle
    /\ \E i \in DOMAIN rx : Published(i)

(***************************************************************************)
(* Properties of the filter of inline metadata                             *)
(***************************************************************************)
IsPayload(b) == b.kind = "d"

Strip(bytes) == SelectSeq(bytes, IsPayload)

\* the bytes read that are in blocks complete_read has completed
Filtered ==
    SubSeq(wire, 1, wire_pos - (IF mp3.read_data = NoBuf THEN 0
                                ELSE mp3.read_count))

OpenedByRedirect(t) == t.pc = "finish" /\ t.failed = 0 /\ t.redirects > 0

SkipBits(r) == {r.masters[i].skip : i \in DOMAIN r.masters}

\* C11 as stated: when a master answers 302 with an http:// Location and
\* the target answers OK, the open succeeds, in_use is the master that
\* served the stream and no master of the relay has skip set.
C11_RedirectOpenAllClear ==
    \A c \in ClientIds :
        OpenedByRedirect(thr[c]) =>
            LET R == relay[client[c].shared_data]
            IN R.in_use = thr[c].master /\ SkipBits(R) \subseteq {0}

\* C11: an open that succeeds after a 302 to an http:// Location makes
\* in_use the master whose redirect was followed, whose skip bit is clear,
\* and sets no skip bit: the masters tried and failed before it in the same
\* pass keep skip = 1; start_relay_stream then starts the one source of the
\* relay's mount on that connection.
C11_RedirectOpenSetsNoSkip ==
    [][\A c \in ClientIds :
          LET r == client[c].shared_data
          IN /\ (thr[c].pc = "connect" /\ OpenedByRedirect(thr'[c])) =>
                   /\ relay'[r].masters = relay[r].masters
                   /\ relay'[r].in_use = thr[c].master
                   /\ relay[r].masters[thr[c].master].skip = 0
                   /\ thr'[c].server = "peer"
             /\ (OpenedByRedirect(thr[c]) /\ thr'[c].pc = "done") =>
                   /\ source'[relay[r].source].running
                   /\ relay'[r].in_use = thr[c].master
                   /\ relay'[r].masters = relay[r].masters
                   /\ Cardinality({x \in ClientIds :
                          source'[x].exists
                          /\ source'[x].mount = relay[r].localmount}) = 1]_vars

\* the second master was redirected and served the stream after the first
\* one had failed
C11_ServedAfterFailedMaster ==
    \E c \in ClientIds :
        /\ thr[c].pc = "done"
        /\ thr[c].failed = 0
        /\ thr[c].redirects > 0
        /\ thr[c].master = 2
        /\ source[relay[client[c].shared_data].source].running
        /\ relay[client[c].shared_data].masters[1].skip = 1

(***************************************************************************)
(* The framing runs: a mount whose plugin writes with                      *)
(* write_mpeg_buf_to_client or with format_mp3_write_buf_to_client, and a  *)
(* listener whose request carries iceblocks, icy-metadata, both or neither *)
(***************************************************************************)
InitFrame ==
    /\ Install_init(EmptyState)
    /\ ice_running = TRUE
    /\ upstream = {}
    /\ passes = 0
    /\ last_cands = <<>>
    /\ \E mpeg \in BOOLEAN :
           InstallIcy_init(format_mp3_get_plugin(IcyOffState, 0, mpeg))
    /\ NoWire
    /\ SlaveOff

NextFrame ==
    \/ \E title_len \in TitleLens : MetadataUpdate(title_len)
    \/ \E bytes \in ReadResults : SourceRead(bytes)
    \/ \E iceblocks \in BOOLEAN, icy_metadata \in BOOLEAN :
           ListenerAttach(FALSE, iceblocks, icy_metadata)
    \/ ListenerWrite

SpecFrame == InitFrame /\ [][NextFrame]_vars

(***************************************************************************)
(* slave.c: streamlist_header, streamlist_data, streamlist_thread and      *)
(* update_from_master.  Text is a sequence of one-character strings.       *)
(***************************************************************************)
MaxChunk == 3          \* most bytes curl hands to streamlist_data in one call
MaxLines == 2          \* lines in the body of a stream-list response
MaxPolls == 2          \* polls of the master explored in a run

NL == "\n"
CR == "\r"
\* memchr (ptr, '\n', passed_len < 150 ? passed_len : 150), passed_len > 150
LineCap == 150
\* master->previous > 200
TailCap == 200

\* memchr, strchr: where ch first is among the first limit bytes, 0 if not
IndexOf(buf, ch, limit) ==
    LET I == {i \in 1..Min(limit, Len(buf)) : buf[i] = ch}
    IN IF I = {} THEN 0 ELSE Lowest(I)

\* eol = strchr (buf, '\r'); if (eol) *eol = '\0'
StripCR(text) ==
    IF IndexOf(text, CR, Len(text)) = 0 THEN text
    ELSE SubSeq(text, 1, IndexOf(text, CR, Len(text)) - 1)

AdminPrefix ==
    <<"/", "a", "d", "m", "i", "n", "/", "s", "t", "r", "e", "a", "m", "s",
      "?", "m", "o", "u", "n", "t", "=", "/">>

\* strncmp (buf, "/admin/streams?mount=/", 22) == 0 ? buf+21 : buf
LocalMount(buf) ==
    IF Len(buf) >= 22 /\ SubSeq(buf, 1, 22) = AdminPrefix
    THEN SubSeq(buf, 22, Len(buf)) ELSE buf

\* the relay_server streamlist_data builds for a line: one master, the
\* polled server, with the line as its mount
ListedRelay(buf) ==
    Candidate(LocalMount(buf), <<Master("m1", 8000, buf)>>, 0)

\* one terminated line: if (*buf == '/') the relay is put at the head of
\* master->new_relays
streamlist_line(m, text) ==
    IF StripCR(text) # <<>> /\ StripCR(text)[1] = "/"
    THEN [m EXCEPT !.new_relays = <<ListedRelay(StripCR(text))>> \o @]
    ELSE m

\* the incomplete last line of a chunk.  strchr runs past the end of the
\* data curl passed, which has no terminating NUL: stale tells whether the
\* bytes behind it hold a newline, and the read then goes wild
streamlist_tail(m, buf, stale) ==
    IF stale THEN [m EXCEPT !.fault = TRUE]
    ELSE [m EXCEPT !.buffer = buf, !.previous = Len(buf)]

\* while (len): line after line of the chunk
RECURSIVE streamlist_loop(_, _, _)
streamlist_loop(m, buf, stale) ==
    IF buf = <<>> THEN m
    ELSE IF IndexOf(buf, NL, Len(buf)) = 0 THEN streamlist_tail(m, buf, stale)
    ELSE streamlist_loop(
             streamlist_line(m, SubSeq(buf, 1, IndexOf(buf, NL, Len(buf)) - 1)),
             SubSeq(buf, IndexOf(buf, NL, Len(buf)) + 1, Len(buf)), stale)

\* memcpy (master->buffer + master->previous, ptr, passed_len) into the
\* passed_len + 1 bytes realloc gave
AppendOverflows(m, ptr) == m.previous + Len(ptr) > Len(ptr) + 1

\* what the buffer holds as a C string after buffer [len] = '\0', with
\* len = passed_len
AppendKept(m, ptr) == SubSeq(m.buffer \o ptr, 1, Len(ptr))

AppendKept_all(m, ptr) == m.buffer \o ptr

\* a tail is held and the chunk has no newline: the chunk is appended.
\* The write behind the allocation is undefined: crash tells whether it
\* ends the task
streamlist_append(m, ptr, crash) ==
    IF Len(ptr) > LineCap \/ m.previous > TailCap
    THEN [st |-> [m EXCEPT !.ok = 0], ret |-> 0]
    ELSE IF AppendOverflows(m, ptr) /\ crash
    THEN [st |-> [m EXCEPT !.fault = TRUE], ret |-> Len(ptr)]
    ELSE [st |-> [m EXCEPT !.buffer = AppendKept(m, ptr),
                           !.previous = Len(AppendKept(m, ptr))],
          ret |-> Len(ptr)]

\* a tail is held and the chunk ends its line at eol: the line is put
\* together in master->buffer and parsed, then the rest of the chunk
streamlist_joined(m, ptr, eol, ub) ==
    streamlist_loop(
        streamlist_line([m EXCEPT !.buffer = <<>>, !.previous = 0],
                        m.buffer \o SubSeq(ptr, 1, eol - 1)),
        SubSeq(ptr, eol + 1, Len(ptr)), ub)

streamlist_data(m, ptr, ub) ==
    IF m.ok = 0 THEN [st |-> m, ret |-> Len(ptr)]
    ELSE IF m.previous # 0
    THEN IF IndexOf(ptr, NL, LineCap) = 0
         THEN streamlist_append(m, ptr, ub)
         ELSE [st |-> streamlist_joined(m, ptr, IndexOf(ptr, NL, LineCap), ub),
               ret |-> Len(ptr)]
    ELSE [st |-> streamlist_loop(m, ptr, ub), ret |-> Len(ptr)]

\* sscanf (ptr, "HTTP%*s %d OK", &respcode) == 1 && respcode == 200
streamlist_header(m, status) == IF status = 200 THEN [m EXCEPT !.ok = 1] ELSE m

(***************************************************************************)
(* The polls of the master                                                 *)
(***************************************************************************)
LineTexts == {<<"/", "a", "b">>, <<"/", "c">>, <<"x">>}

RECURSIVE Bodies(_)
Bodies(n) ==
    IF n = 0 THEN {<<>>}
    ELSE Bodies(n - 1) \cup
         {b \o t \o <<NL>> : b \in Bodies(n - 1), t \in LineTexts}

\* the lists the master serves in the polling runs
PollBodies ==
    {<<>>, <<"/", "c", NL>>, <<"/", "a", "b", NL, "/", "c", NL>>}

Statuses == {200, 404}

ListerBusy_never(l) == FALSE

\* if (streamlister) return
ListerBusy(l) == l.streamlister # 0

\* update_from_master: streamlister = 1, details = calloc (...),
\* thread_create ("streamlist", streamlist_thread, details, ...)
UpdateFromMaster ==
    /\ lister.polls < MaxPolls
    /\ ~ListerBusy(lister)
    /\ lister' = [lister EXCEPT !.streamlister = 1, !.pc = "start",
                                !.tasks = @ + 1, !.master = NoDetails,
                                !.merged = 0, !.failed = 0]
    /\ UNCHANGED <<relayVars, icyVars, slaves>>

\* streamlist_thread up to the first curl_easy_perform: master->ok = 0;
\* the master holds the list body and answers status
StreamlistStart(status, body) ==
    /\ lister.pc = "start"
    /\ lister' = [lister EXCEPT
                    !.master.ok = 0, !.pc = "streams",
                    !.xfer = [status |-> status, body |-> body, pos |-> 0,
                              header |-> FALSE]]
    /\ UNCHANGED <<relayVars, icyVars, slaves>>

Transferring == lister.pc \in {"streams", "fallback"}

\* curl calls streamlist_header with the status line
StreamlistHeader ==
    /\ Transferring
    /\ ~lister.xfer.header
    /\ lister' = [lister EXCEPT
                    !.xfer.header = TRUE,
                    !.master = streamlist_header(@, lister.xfer.status)]
    /\ UNCHANGED <<relayVars, icyVars, slaves>>

\* the fetch that ended did not succeed: a transfer error or no 200
FetchFailed(l, err) == err \/ l.xfer.status # 200

\* curl_easy_perform returned: after /admin/streams the task goes on to
\* /admin/streamlist.txt if (curl_easy_perform (handle) != 0 ||
\* master->ok == 0), whose status is the input; else to the merge
perform_returned(l, err, status) ==
    IF l.pc = "streams" /\ (err \/ l.master.ok = 0)
    THEN [l EXCEPT !.pc = "fallback",
                   !.failed = @ + (IF FetchFailed(l, err) THEN 1 ELSE 0),
                   !.xfer = [status |-> status, body |-> l.xfer.body,
                             pos |-> 0, header |-> FALSE]]
    ELSE [l EXCEPT !.pc = "merge",
                   !.failed = @ + (IF FetchFailed(l, err) THEN 1 ELSE 0)]

\* curl calls streamlist_data with the next n bytes of the body; a return
\* other than n makes curl_easy_perform fail
data_received(l, n, res, status) ==
    IF res.st.fault THEN [l EXCEPT !.master = res.st, !.pc = "crashed"]
    ELSE IF res.ret # n
    THEN perform_returned([l EXCEPT !.master = res.st], TRUE, status)
    ELSE [l EXCEPT !.master = res.st, !.xfer.pos = @ + n]

ChunkAt(x, n) == SubSeq(x.body, x.pos + 1, x.pos + n)

StreamlistData(n, ub, status) ==
    /\ Transferring
    /\ lister.xfer.header
    /\ lister.xfer.pos + n <= Len(lister.xfer.body)
    /\ lister' = data_received(lister, n,
                     streamlist_data(lister.master, ChunkAt(lister.xfer, n), ub),
                     status)
    /\ UNCHANGED <<relayVars, icyVars, slaves>>

\* curl_easy_perform returns 0 when the whole response has been passed on,
\* and an error at any moment (no connection, a reset, the 120 s timeout)
PerformReturns(err, status) ==
    /\ Transferring
    /\ err \/ (lister.xfer.header /\ lister.xfer.pos = Len(lister.xfer.body))
    /\ lister' = perform_returned(lister, err, status)
    /\ UNCHANGED <<relayVars, icyVars, slaves>>

\* the relay subsystem with global.master_relays as the list to diff
MasterState == [State EXCEPT !.list = lister.master_relays]

MergeWanted_always(l) == TRUE

\* if (master->ok) update_relays (&global.master_relays, master->new_relays)
MergeWanted(l) == l.master.ok # 0

streamlist_merge(l) ==
    IF MergeWanted(l) THEN update_relays(MasterState, l.master.new_relays)
    ELSE MasterState

\* the merge, then master->new_relays is cleared
StreamlistMerge ==
    /\ lister.pc = "merge"
    /\ ~streamlist_merge(lister).ovf
    /\ Install([streamlist_merge(lister) EXCEPT !.list = global_relays])
    /\ lister' = [lister EXCEPT
                    !.pc = "free",
                    !.master_relays = streamlist_merge(lister).list,
                    !.merged = @ + (IF MergeWanted(lister) THEN 1 ELSE 0),
                    !.master.new_relays = <<>>]
    /\ UNCHANGED <<ice_running, upstream, passes, last_cands, icyVars, slaves>>

\* free (master); streamlister = 0; return NULL
StreamlistExit ==
    /\ lister.pc = "free"
    /\ lister' = [lister EXCEPT !.pc = "none", !.streamlister = 0,
                                !.tasks = @ - 1, !.polls = @ + 1,
                                !.master = NoDetails,
                                !.xfer = NoTransfer]
    /\ UNCHANGED <<relayVars, icyVars, slaves>>

\* the chunk sizes of the polling runs: curl passes whole lines on (how
\* streamlist_data copes with lines cut anywhere is left to the parse runs)
LineEnds(x) ==
    {n \in 1..(Len(x.body) - x.pos) : x.body[x.pos + n] = NL}

InitList ==
    /\ Install_init(EmptyState)
    /\ ice_running = TRUE
    /\ upstream = {a \in Answers : a.kind = "ok"}
    /\ passes = 0
    /\ last_cands = <<>>
    /\ IcyOff
    /\ SlaveOff

NextList ==
    \/ UpdateFromMaster
    \/ \E status \in Statuses, body \in PollBodies :
           StreamlistStart(status, body)
    \/ StreamlistHeader
    \/ \E n \in LineEnds(lister.xfer), ub \in BOOLEAN, status \in Statuses :
           StreamlistData(n, ub, status)
    \/ \E err \in BOOLEAN, status \in Statuses : PerformReturns(err, status)
    \/ StreamlistMerge
    \/ StreamlistExit

SpecList == InitList /\ [][NextList]_vars

(***************************************************************************)
(* The parse runs: a 200 answer to /admin/streams whose status line has    *)
(* been seen, and a body that curl cuts into chunks of any size            *)
(***************************************************************************)
InitParse ==
    /\ Install_init(EmptyState)
    /\ ice_running = TRUE
    /\ upstream = {a \in Answers : a.kind = "ok"}
    /\ passes = 0
    /\ last_cands = <<>>
    /\ IcyOff
    /\ slaves = NoSlaves
    /\ \E body \in Bodies(MaxLines) :
           lister = [NoLister EXCEPT
                        !.streamlister = 1, !.pc = "streams", !.tasks = 1,
                        !.master.ok = 1,
                        !.xfer = [status |-> 200, body |-> body, pos |-> 0,
                                  header |-> TRUE]]

NextParse == \E n \in 1..MaxChunk, ub \in BOOLEAN : StreamlistData(n, ub, 200)

SpecParse == InitParse /\ [][NextParse]_vars

(***************************************************************************)
(* C12                                                                     *)
(***************************************************************************)
\* the lines of a body that end in a newline and begin with '/', last first
RECURSIVE SlashLines(_)
SlashLines(body) ==
    IF IndexOf(body, NL, Len(body)) = 0 THEN <<>>
    ELSE SlashLines(SubSeq(body, IndexOf(body, NL, Len(body)) + 1, Len(body)))
         \o (IF body[1] = "/"
             THEN <<SubSeq(body, 1, IndexOf(body, NL, Len(body)) - 1)>>
             ELSE <<>>)

MasterMounts(relays) == [i \in DOMAIN relays |-> relays[i].masters[1].mount]

\* the whole body of a 200 answer to /admin/streams has been passed on and
\* no undefined step ended the task
WholeListPassed ==
    /\ lister.pc = "streams"
    /\ lister.xfer.status = 200
    /\ lister.xfer.header
    /\ lister.xfer.pos = Len(lister.xfer.body)
    /\ ~lister.master.fault

\* C12: however the body of the stream-list response is cut into chunks,
\* streamlist_data has built exactly one candidate relay for every
\* newline-terminated line that begins with '/', with the full text of the
\* line as the mount of its master
C12_OneCandidatePerLine ==
    WholeListPassed =>
        MasterMounts(lister.master.new_relays) = SlashLines(lister.xfer.body)

(***************************************************************************)
(* C13                                                                     *)
(***************************************************************************)
\* the payload of the queued blocks from block k on, in order
RECURSIVE QueuedPayload(_)
QueuedPayload(k) ==
    IF k > Len(queue) THEN <<>>
    ELSE DataToks(Icy, queue[k], 0, refbufs[queue[k]].len) \o QueuedPayload(k + 1)

\* a listener whose request had neither iceblocks nor icy-metadata
PlainListener ==
    lst.phase = "attached" /\ lst.interval = 0 /\ ~lst.wants_meta

Announced(name) == \E h \in lst.headers : h.name = name

\* iceblock framing: no ICY insert, and every block follows its two length
\* bytes
IceFramed ==
    \A i \in DOMAIN rx :
        /\ rx[i].kind \in {"i", "l", "d"}
        /\ (rx[i].kind = "d" /\ rx[i].idx = 1) =>
               (i > 2 /\ rx[i - 1].kind = "l" /\ rx[i - 1].idx = 2)

\* ICY framing at interval n: no iceblock byte, an insert only after a
\* multiple of n payload bytes, never more than n payload bytes in a row
IcyFramed(n) ==
    /\ lst.interval = n
    /\ \A i \in DOMAIN rx :
          /\ rx[i].kind \in {"m", "z", "d"}
          /\ InsertStart(i) => (PayloadBefore(i) > 0 /\ PayloadBefore(i) % n = 0)
          /\ i + n <= Len(rx) => \E j \in i..(i + n) : ~IsData(j)

RawFramed == \A i \in DOMAIN rx : rx[i].kind = "d"

IceAnnounced == lst.phase = "attached" /\ Announced("IceBlocks")

IcyAnnounced == lst.phase = "attached" /\ Announced("icy-metaint")

NoneAnnounced == lst.phase = "attached" /\ lst.headers = {}

\* C14: the framing the handshake announced is the framing of what the
\* listener is written: IceBlocks: 1.1 means iceblock framing,
\* icy-metaint:<n> means ICY framing at interval n, never both headers,
\* and raw framing when neither was sent
C14_AnnouncedFramingUsed ==
    /\ IceAnnounced => IceFramed
    /\ IcyAnnounced => \A h \in lst.headers : IcyFramed(h.value)
    /\ ~(Announced("IceBlocks") /\ Announced("icy-metaint"))
    /\ NoneAnnounced => RawFramed

(***************************************************************************)
(* slave.c: slaves_lock, redirect_client, redirector_update,               *)
(* redirector_add, find_slave_host, redirector_clearall                    *)
(***************************************************************************)
\* thread_rwlock_rlock, thread_rwlock_wlock, thread_rwlock_unlock
CanRead(sl) == sl.writer = 0
CanWrite(sl) == sl.writer = 0 /\ sl.readers = {}
rlock(sl, t) == [sl EXCEPT !.readers = @ \cup {t}]
wlock(sl, t) == [sl EXCEPT !.writer = t]
unlock(sl, t) ==
    [sl EXCEPT !.readers = @ \ {t},
               !.writer = IF @ = t THEN 0 ELSE @,
               !.thr[t] = IdleThread]

\* *trail
TrailValue(sl, trail) ==
    IF trail = 0 THEN sl.redirectors ELSE sl.host[trail].next

\* *trail = next
TrailSet(sl, trail, next) ==
    IF trail = 0 THEN [sl EXCEPT !.redirectors = next]
    ELSE [sl EXCEPT !.host[trail].next = next]

\* the redirect_host a pointer leads to has been freed
Dangling(sl, h) == h # 0 /\ ~sl.host[h].alloc

\* redirect_client up to the loop: the read lock, redirect_count == 0,
\* the random selection
redirect_client_enter(sl, t, which) ==
    IF sl.redirect_count = 0 THEN sl
    ELSE [rlock(sl, t) EXCEPT
            !.thr[t] = [IdleThread EXCEPT !.pc = "scan", !.which = which,
                                          !.checking = sl.redirectors]]

Expired_never(h) == FALSE

\* if (checking->next_update && checking->next_update+10 < time(NULL))
Expired(h) == h.timed /\ h.stale

\* the expired entry is taken off the list: *trail = checking->next;
\* global.redirect_count--
redirect_client_unlink(sl, t) ==
    [TrailSet(sl, sl.thr[t].trail, sl.host[sl.thr[t].checking].next) EXCEPT
        !.redirect_count = @ - 1,
        !.thr[t].pc = "free"]

\* if (--which == 0) the listener is sent to this slave; trail and checking
\* move on
redirect_client_pass(sl, t) ==
    [sl EXCEPT !.thr[t].which = @ - 1,
               !.thr[t].location =
                   IF sl.thr[t].which - 1 = 0
                   THEN sl.host[sl.thr[t].checking].server ELSE @,
               !.thr[t].sent = IF sl.thr[t].which - 1 = 0 THEN @ + 1 ELSE @,
               !.thr[t].ret = IF sl.thr[t].which - 1 = 0 THEN 1 ELSE @,
               !.thr[t].trail = sl.thr[t].checking,
               !.thr[t].checking = sl.host[sl.thr[t].checking].next]

\* one turn of while (checking)
redirect_client_scan(sl, t) ==
    IF sl.thr[t].checking = 0 THEN unlock(sl, t)
    ELSE IF Dangling(sl, sl.thr[t].checking) \/ Dangling(sl, sl.thr[t].trail)
    THEN [sl EXCEPT !.fault = TRUE]
    ELSE IF Expired(sl.host[sl.thr[t].checking])
    THEN redirect_client_unlink(sl, t)
    ELSE redirect_client_pass(sl, t)

\* free (checking); checking = *trail; if (which > 0) which--; a second
\* free of the entry is undefined: the allocator stops the server, or lets
\* it pass (unnoticed)
redirect_client_free(sl, t, unnoticed) ==
    IF Dangling(sl, sl.thr[t].trail)
           \/ (Dangling(sl, sl.thr[t].checking) /\ ~unnoticed)
    THEN [sl EXCEPT !.fault = TRUE]
    ELSE [sl EXCEPT
            !.host[sl.thr[t].checking] = FreeHost,
            !.thr[t].pc = "scan",
            !.thr[t].checking = TrailValue(sl, sl.thr[t].trail),
            !.thr[t].which = IF @ > 0 THEN @ - 1 ELSE @]

\* find_slave_host: 0 if there is none, -1 if the walk meets freed memory
RECURSIVE find_slave_host(_, _, _, _)
find_slave_host(sl, h, server, fuel) ==
    IF h = 0 THEN 0
    ELSE IF Dangling(sl, h) \/ fuel = 0 THEN -1
    ELSE IF sl.host[h].server = server THEN h
    ELSE find_slave_host(sl, sl.host[h].next, server, fuel - 1)

FreeHosts(sl) == {h \in HostIds : ~sl.host[h].alloc}

\* redirector_add (server, port, interval): next_update is 0 when interval
\* is 0, time (NULL) + interval otherwise
redirector_add(sl, server, interval) ==
    [sl EXCEPT
        !.host[Lowest(FreeHosts(sl))] =
            [alloc |-> TRUE, server |-> server, next |-> sl.redirectors,
             timed |-> interval # 0, stale |-> FALSE],
        !.redirectors = Lowest(FreeHosts(sl)),
        !.redirect_count = @ + 1]

\* the interval a slave announces: redirector_update wants 5 or more
UpdateInterval == 5

\* if (global.redirect_count < allowed)
BelowLimit(n) == n < CfgMaxRedirects

\* redirector_update between wlock and unlock; found is what
\* find_slave_host gave
redirector_update_found(sl, server, found) ==
    IF found = -1 THEN [sl EXCEPT !.fault = TRUE]
    ELSE IF found = 0
    THEN IF BelowLimit(sl.redirect_count)
         THEN redirector_add(sl, server, UpdateInterval)
         ELSE sl
    ELSE [sl EXCEPT !.host[found].timed = TRUE, !.host[found].stale = FALSE]

redirector_update(sl, t) ==
    unlock(redirector_update_found(
               sl, sl.thr[t].server,
               find_slave_host(sl, sl.redirectors, sl.thr[t].server, MaxHosts)),
           t)

\* config->master_server, a host of its own
MasterServer == 3

\* update_master_as_slave between wlock and unlock: the master is added
\* with interval 0, or master_update_interval is added to the next_update it
\* has: to 0 that gives a time long past, to a time set by redirector_update
\* one that lies ahead (fresh) or not
update_master_as_slave_found(sl, found, fresh) ==
    IF found = -1 THEN [sl EXCEPT !.fault = TRUE]
    ELSE IF found = 0 THEN redirector_add(sl, MasterServer, 0)
    ELSE [sl EXCEPT
            !.host[found].stale = IF ~sl.host[found].timed THEN TRUE
                                  ELSE IF fresh THEN FALSE ELSE @,
            !.host[found].timed = TRUE]

update_master_as_slave(sl, t, fresh) ==
    unlock(update_master_as_slave_found(
               sl, find_slave_host(sl, sl.redirectors, MasterServer, MaxHosts),
               fresh),
           t)

\* redirector_clearall between wlock and unlock: every entry the list
\* leads to is freed
RECURSIVE clear_from(_, _, _)
clear_from(sl, h, fuel) ==
    IF h = 0 THEN [sl EXCEPT !.redirectors = 0, !.redirect_count = 0]
    ELSE IF Dangling(sl, h) \/ fuel = 0 THEN [sl EXCEPT !.fault = TRUE]
    ELSE clear_from([sl EXCEPT !.host[h] = FreeHost], sl.host[h].next, fuel - 1)

redirector_clearall(sl, t) == unlock(clear_from(sl, sl.redirectors, MaxHosts), t)

(***************************************************************************)
(* The redirect runs: two workers redirect listeners while slaves announce *)
(* themselves and time passes                                              *)
(***************************************************************************)
Servers == {1, 2}

RedirectClientEnter(t, which) ==
    /\ ~slaves.fault
    /\ slaves.thr[t].pc = "idle"
    /\ CanRead(slaves)
    /\ which <= slaves.redirect_count
    /\ slaves' = redirect_client_enter(slaves, t, which)
    /\ UNCHANGED <<relayVars, icyVars, lister>>

RedirectClientScan(t) ==
    /\ ~slaves.fault
    /\ slaves.thr[t].pc = "scan"
    /\ slaves' = redirect_client_scan(slaves, t)
    /\ UNCHANGED <<relayVars, icyVars, lister>>

RedirectClientFree(t) ==
    /\ ~slaves.fault
    /\ slaves.thr[t].pc = "free"
    /\ \E unnoticed \in (IF Dangling(slaves, slaves.thr[t].checking)
                          THEN BOOLEAN ELSE {FALSE}) :
           slaves' = redirect_client_free(slaves, t, unnoticed)
    /\ UNCHANGED <<relayVars, icyVars, lister>>

\* thread_rwlock_wlock in redirector_update (for the slave at server) and in
\* redirector_clearall
RedirectorLock(pc, server) ==
    /\ ~slaves.fault
    /\ slaves.thr[UpdateThread].pc = "idle"
    /\ CanWrite(slaves)
    /\ pc \in {"update", "master"} => FreeHosts(slaves) # {}
    /\ slaves' = [wlock(slaves, UpdateThread) EXCEPT
                    !.thr[UpdateThread].pc = pc,
                    !.thr[UpdateThread].server = server]
    /\ UNCHANGED <<relayVars, icyVars, lister>>

RedirectorUpdate ==
    /\ ~slaves.fault
    /\ slaves.thr[UpdateThread].pc = "update"
    /\ slaves' = redirector_update(slaves, UpdateThread)
    /\ UNCHANGED <<relayVars, icyVars, lister>>

UpdateMasterAsSlave ==
    /\ ~slaves.fault
    /\ slaves.thr[UpdateThread].pc = "master"
    /\ \E fresh \in BOOLEAN :
           slaves' = update_master_as_slave(slaves, UpdateThread, fresh)
    /\ UNCHANGED <<relayVars, icyVars, lister>>

RedirectorClearall ==
    /\ ~slaves.fault
    /\ slaves.thr[UpdateThread].pc = "clear"
    /\ slaves' = redirector_clearall(slaves, UpdateThread)
    /\ UNCHANGED <<relayVars, icyVars, lister>>

\* time passes: next_update + 10 of an entry lies in the past
Expire(h) ==
    /\ ~slaves.fault
    /\ slaves.host[h].alloc
    /\ slaves.host[h].timed
    /\ ~slaves.host[h].stale
    /\ slaves' = [slaves EXCEPT !.host[h].stale = TRUE]
    /\ UNCHANGED <<relayVars, icyVars, lister>>

InitRedirect ==
    /\ Install_init(EmptyState)
    /\ ice_running = TRUE
    /\ upstream = {}
    /\ passes = 0
    /\ last_cands = <<>>
    /\ IcyOff
    /\ SlaveOff

NextRedirect ==
    \/ \E t \in RedirectThreads :
          \/ \E which \in 1..MaxHosts : RedirectClientEnter(t, which)
          \/ RedirectClientScan(t)
          \/ RedirectClientFree(t)
    \/ \E server \in Servers : RedirectorLock("update", server)
    \/ RedirectorLock("clear", 0)
    \/ RedirectorLock("master", MasterServer)
    \/ RedirectorUpdate
    \/ UpdateMasterAsSlave
    \/ RedirectorClearall
    \/ \E h \in HostIds : Expire(h)

SpecRedirect == InitRedirect /\ [][NextRedirect]_vars

(***************************************************************************)
(* C15                                                                     *)
(***************************************************************************)
\* an entry was added, taken off or freed, a link or the head of the list
\* or redirect_count was written
ListWritten ==
    \/ slaves'.redirectors # slaves.redirectors
    \/ slaves'.redirect_count # slaves.redirect_count
    \/ \E h \in HostIds :
          \/ slaves'.host[h].alloc # slaves.host[h].alloc
          \/ slaves'.host[h].next # slaves.host[h].next

\* C15: whatever adds, removes or frees an entry of redirectors or changes
\* global.redirect_count holds slaves_lock exclusively
C15_ListWrittenUnderWriteLock ==
    [][ListWritten => slaves.writer # 0]_vars

(***************************************************************************)
(* The cancel runs: the diff runs with the admin request that toggles a    *)
(* relay, under the scheduling of the workers: a client that stays due is  *)
(* run, a relay-open task that was started goes on                         *)
(***************************************************************************)
\* relay_toggle: a stopped relay is sent back to relay_initialise, running
\* is flipped and the client woken
relay_toggle(s, r) ==
    LET c == s.relay[r].source
        s1 == IF s.relay[r].running = 0
              THEN [s EXCEPT !.client[c].ops = "init"] ELSE s
    IN [s1 EXCEPT !.relay[r].running = IF s.relay[r].running = 0 THEN 1 ELSE 0,
                  !.client[c].sched = 0]

\* the admin request finds the relay in global.relays; the requests of a
\* run are counted with the update_relays passes
RelayToggle(r) ==
    /\ passes < MaxPasses
    /\ r \in Range(global_relays)
    /\ relay[r].source # NoSource
    /\ Install(relay_toggle(State, r))
    /\ passes' = passes + 1
    /\ UNCHANGED <<ice_running, upstream, last_cands, icyVars, slaveVars>>

\* one relay is configured, and taken out again
CancelConfig == <<Candidate("/a", <<Master("m1", 8000, "/a")>>, 0)>>

CancelLists == {<<>>, CancelConfig}

InitCancel ==
    /\ Install_init(update_relays(EmptyState, CancelConfig))
    /\ ice_running = TRUE
    /\ upstream = {a \in Answers : a.kind \in {"ok", "refused"}}
    /\ passes = 0
    /\ last_cands = CancelConfig
    /\ IcyOff
    /\ SlaveOff

NextCancel ==
    \/ \E cands \in CancelLists : UpdateRelays(cands)
    \/ \E r \in RelayIds : RelayToggle(r)
    \/ \E c \in ClientIds :
        \/ RelayInitialise(c)
        \/ RelayStartup(c)
        \/ RelayRead(c)
        \/ StartRelayStreamBegin(c)
        \/ OpenRelayConnection(c)
        \/ StartRelayStreamFinish(c)
        \/ StartRelayStreamEnd(c)

\* what the worker or the relay-open task of a client does next: at most
\* one of these is enabled
ClientStep(c) ==
    \/ RelayInitialise(c)
    \/ RelayStartup(c)
    \/ RelayRead(c)
    \/ StartRelayStreamBegin(c)
    \/ OpenRelayConnection(c)
    \/ StartRelayStreamFinish(c)
    \/ StartRelayStreamEnd(c)

\* the relay structures and clients that the cancel runs can hold
CancelIds == 1..MaxRelayObjs

WorkersRun == \A c \in CancelIds : WF_vars(ClientStep(c))

SpecCancel == InitCancel /\ [][NextCancel]_vars /\ WorkersRun

(***************************************************************************)
(* C16                                                                     *)
(***************************************************************************)
Cancelled(r) == relay[r].alloc /\ relay[r].cleanup = 1

\* C16: a relay that was marked cleanup = 1 is eventually released by its
\* client (no source in these runs has a listener)
C16_CancelledRelayReleased ==
    \A r \in CancelIds : Cancelled(r) ~> ~relay[r].alloc

(***************************************************************************)
(* C17                                                                     *)
(***************************************************************************)
Localmounts(cands) == {cands[i].localmount : i \in DOMAIN cands}

DistinctMounts(cands) ==
    \A i, j \in DOMAIN cands :
        i # j => cands[i].localmount # cands[j].localmount

\* the step is an update_relays pass over candidates of distinct localmounts
DistinctPass == passes' = passes + 1 /\ DistinctMounts(last_cands')

\* C17: after update_relays over candidates of pairwise distinct
\* localmounts the live list holds one relay for each candidate localmount
\* and no other, every relay of the previous list whose localmount is not
\* among the candidates is marked cleanup = 1, and no relay of the live
\* list is marked cleanup
C17_LiveListMatchesCandidates ==
    [][DistinctPass =>
        /\ Len(global_relays') = Len(last_cands')
        /\ Cardinality(Range(global_relays')) = Len(last_cands')
        /\ {relay'[r].localmount : r \in Range(global_relays')}
              = Localmounts(last_cands')
        /\ \A r \in Range(global_relays') :
              relay'[r].alloc /\ relay'[r].cleanup = 0
        /\ \A r \in Range(global_relays) :
              relay[r].localmount \notin Localmounts(last_cands')
                  => relay'[r].alloc /\ relay'[r].cleanup = 1]_vars

\* a pass has kept or installed one relay and dropped another, which is
\* marked and no longer in the list
C17_RelayDropped ==
    /\ passes > 0
    /\ DistinctMounts(last_cands)
    /\ global_relays # <<>>
    /\ \E r \in RelayIds :
          /\ relay[r].alloc
          /\ relay[r].cleanup = 1
          /\ r \notin Range(global_relays)
          /\ relay[r].localmount \notin Localmounts(last_cands)

(***************************************************************************)
(* C18                                                                     *)
(***************************************************************************)
TaskSpawned == lister'.tasks > lister.tasks

FlagCleared == lister.streamlister # 0 /\ lister'.streamlister = 0

\* C18: there is never more than one stream-list task; a task is spawned
\* only in a state where streamlister is 0, and streamlister goes back to 0
\* only in the step of the task that follows its merge into
\* global.master_relays
C18_OneStreamlistTask ==
    [][/\ lister.tasks <= 1 /\ lister'.tasks <= 1
       /\ TaskSpawned => lister.streamlister = 0
       /\ FlagCleared => lister.pc = "free" /\ lister'.tasks = 0]_vars

\* a second poll was started after the first one had ended, and has merged
\* its list
C18_SecondTaskMerged ==
    /\ lister.polls >= 1
    /\ lister.tasks = 1
    /\ lister.streamlister = 1
    /\ lister.pc = "free"
    /\ lister.merged = 1

(***************************************************************************)
(* C19                                                                     *)
(***************************************************************************)
\* the task is about to decide on the merge and both of its fetches failed
BothFetchesFailed == lister.pc = "merge" /\ lister.failed = 2

\* C19: when the fetch of /admin/streams and the retry against
\* /admin/streamlist.txt have both failed, the task does not call
\* update_relays: global.master_relays and the relays stay as they are
C19_FailedFetchLeavesRelays ==
    [][BothFetchesFailed =>
          /\ lister'.merged = lister.merged
          /\ lister'.master_relays = lister.master_relays
          /\ relay' = relay
          /\ client' = client]_vars

(***************************************************************************)
(* C20                                                                     *)
(***************************************************************************)
\* relay_read finds the source of client c stopped after a connection
RelayEnds(c) ==
    /\ client[c].exists /\ client[c].active
    /\ client[c].ops = "read"
    /\ client[c].con_time
    /\ ~source[relay[client[c].shared_data].source].running
    /\ ~source[relay[client[c].shared_data].source].terminating
    /\ relay[client[c].shared_data].running = 1
    /\ relay[client[c].shared_data].cleanup = 0
    /\ client'[c].ops # "read"

\* the stream was connected: a master is in use
StreamEnds(c) ==
    RelayEnds(c) /\ relay[client[c].shared_data].in_use # NoMaster

\* the connection round found no master: start_relay_stream has cleared
\* in_use
RoundFailed(c) ==
    RelayEnds(c) /\ relay[client[c].shared_data].in_use = NoMaster

TimedOut(c) == source[relay[client[c].shared_data].source].timeout

\* after the step the master that was in use is marked: the stream died
\* within 60 seconds or timed out
InUseSkipped(c) ==
    LET r == client[c].shared_data
    IN relay'[r].masters[relay[r].in_use].skip = 1

MasterLeft(c) ==
    \E m \in DOMAIN relay'[client[c].shared_data].masters :
        relay'[client[c].shared_data].masters[m].skip = 0

BackedOff(c) ==
    /\ client'[c].ops = "startup"
    /\ client'[c].sched = relay[client[c].shared_data].interval * 1000

AllRetried(r) ==
    \A m \in DOMAIN relay'[r].masters : relay'[r].masters[m].skip = 0

\* a connection round of client c begins behind a stream whose master is
\* still in use and was not marked
RoundAfterNormalEnd(c) ==
    /\ thr[c].pc = "start"
    /\ thr'[c].pc # "start"
    /\ relay[client[c].shared_data].in_use # NoMaster
    /\ relay[client[c].shared_data]
          .masters[relay[client[c].shared_data].in_use].skip = 0

\* C21: when a connected stream ends without SOURCE_TIMEOUT after 60
\* seconds or more (the master in use is not marked), relay_read leaves
\* every master of the relay with skip = 0, and the connection round that
\* follows starts with every master to try
C21_NormalEndRetriesAll ==
    [][\A c \in ClientIds :
          /\ StreamEnds(c) /\ ~TimedOut(c) /\ ~InUseSkipped(c)
                => AllRetried(client[c].shared_data)
          /\ RoundAfterNormalEnd(c) =>
                \A m \in DOMAIN relay[client[c].shared_data].masters :
                    relay[client[c].shared_data].masters[m].skip = 0]_vars

\* the stream of the second master, reached after the first had failed,
\* has ended normally: the relay is due again and no master is skipped
C21_SecondMasterEnded ==
    \E c \in ClientIds :
        /\ client[c].exists /\ client[c].active
        /\ client[c].ops = "init"
        /\ relay[client[c].shared_data].in_use = 2
        /\ \A m \in DOMAIN relay[client[c].shared_data].masters :
              relay[client[c].shared_data].masters[m].skip = 0

(***************************************************************************)
(* C22                                                                     *)
(***************************************************************************)
\* the masters of relay R between positions i and j, both excluded
Between(R, i, j) == {k \in DOMAIN R.masters : i < k /\ k < j}

\* open_relay enters open_relay_connection for the first time in a round
RoundStarts(c) == thr[c].pc = "start" /\ thr'[c].pc = "connect"

\* a step of open_relay_connection for the master thr[c].master
Attempt(c) == thr[c].pc = "connect" /\ thr'[c] # thr[c]

\* the attempt on that master is over after the step
AttemptOver(c) ==
    Attempt(c) /\ (thr'[c].pc # "connect" \/ thr'[c].master # thr[c].master)

\* C22: open_relay takes the masters in list order and passes over those
\* with skip set only; no step of open_relay_connection is made for a
\* master whose skip is set; the round ends with the first master whose
\* connection and source completion succeed; a master whose attempt ends
\* with open_relay_connection returning -1 has skip = 1 afterwards
C22_OpenRelayOrder ==
    [][\A c \in ClientIds :
          LET r == client[c].shared_data
          IN /\ RoundStarts(c) =>
                   /\ relay'[r].masters[thr'[c].master].skip = 0
                   /\ \A k \in Between(relay'[r], 0, thr'[c].master) :
                         relay'[r].masters[k].skip = 1
             /\ Attempt(c) =>
                   /\ relay[r].masters[thr[c].master].skip = 0
                   /\ relay'[r].in_use = thr[c].master
             /\ AttemptOver(c) /\ thr'[c].pc = "connect" =>
                   /\ thr'[c].master > thr[c].master
                   /\ relay'[r].masters[thr'[c].master].skip = 0
                   /\ \A k \in Between(relay'[r], thr[c].master, thr'[c].master) :
                         relay'[r].masters[k].skip = 1
             /\ AttemptOver(c) /\ thr'[c].pc = "finish" /\ thr'[c].failed = 0 =>
                   /\ thr'[c].ret = 0
                   /\ relay'[r].masters[thr[c].master].skip = 0
             /\ AttemptOver(c) /\ thr'[c].pc = "finish" /\ thr'[c].failed = 1 =>
                   \A k \in Between(relay'[r], thr[c].master,
                                    Len(relay'[r].masters) + 1) :
                         relay'[r].masters[k].skip = 1
             /\ AttemptOver(c) /\ thr'[c].ret = -1 =>
                   relay'[r].masters[thr[c].master].skip = 1]_vars

\* a round has tried the first master, then the second, both attempts
\* failed and both masters are marked
C22_BothMastersFailed ==
    \E c \in ClientIds :
        /\ thr[c].pc = "finish"
        /\ thr[c].failed = 1
        /\ thr[c].master = 2
        /\ thr[c].ret = -1
        /\ \A m \in DOMAIN relay[client[c].shared_data].masters :
              relay[client[c].shared_data].masters[m].skip = 1
(***************************************************************************)
(* redirect_client: the entries whose time has run out                     *)
(***************************************************************************)
\* the entries that redirectors leads to
RECURSIVE ListFrom(_, _, _)
ListFrom(sl, h, fuel) ==
    IF h = 0 \/ fuel = 0 \/ ~sl.host[h].alloc THEN {}
    ELSE {h} \cup ListFrom(sl, sl.host[h].next, fuel - 1)

OnList(sl, h) == h \in ListFrom(sl, sl.redirectors, MaxHosts)

\* worker t goes through one turn of while (checking)
LoopTurn(t) ==
    /\ slaves.thr[t].pc = "scan"
    /\ slaves.thr[t].checking # 0
    /\ slaves'.thr[t] # slaves.thr[t]

\* next_update is set and next_update + 10 lies in the past
TimeRanOut(h) == slaves.host[h].timed /\ slaves.host[h].stale

\* the turn takes the entry off the list and counts it off once
TakenOff(t, h) ==
    /\ OnList(slaves, h)
    /\ ~OnList(slaves', h)
    /\ slaves'.redirect_count = slaves.redirect_count - 1
    /\ slaves'.thr[t].location = slaves.thr[t].location

\* C23: a lookup of redirect_client removes every entry it meets whose
\* next_update + 10 is earlier than now, reducing redirect_count by one for
\* it, and never names such an entry in the 302; it meets every entry,
\* since redirect_count is the length of the list and the loop runs to the
\* end of the list
C23_ExpiredRemovedNeverChosen ==
    [][/\ slaves.redirect_count =
              Cardinality(ListFrom(slaves, slaves.redirectors, MaxHosts))
       /\ \A t \in RedirectThreads :
             LoopTurn(t) =>
                 IF TimeRanOut(slaves.thr[t].checking)
                 THEN TakenOff(t, slaves.thr[t].checking)
                 ELSE slaves'.thr[t].checking =
                          slaves.host[slaves.thr[t].checking].next]_vars
(***************************************************************************)
(* The frame runs: a source without inline metadata whose client has       *)
(* format_data, so that each block it reads goes through validate_mpeg     *)
(***************************************************************************)
\* the stream is long enough for a carry-over to grow past FrameLimit
WireLen == FrameLimit + QueueBlockSize + MaxBlocks

\* the block complete_read fills, and what it still asks for
ReadBlockLen == IF mp3.read_data = NoBuf THEN QueueBlockSize
                ELSE refbufs[mp3.read_data].len

ReadIn == ReadBlockLen - mp3.read_count

\* what client_read_bytes can give: all that is asked for, or one byte less
MpegReadResults == {ReadIn - 1, ReadIn} \cap (0..(Len(wire) - wire_pos))

\* what the frame parser can make of a block of n bytes: no frames at all,
\* whole frames only, a fragment of one byte, one byte of frames, or nothing
\* but a fragment
UnprocessedCounts(n) == {-1, 0, 1, n - 1, n} \cap (-1..n)

\* source_read on a mount nobody listens to: a block the plugin returns is
\* queued and leaves the queue again
SourceReadMpeg(n, unprocessed) ==
    /\ mp3.alive
    /\ mp3.source_running
    /\ mp3.inline_metadata_interval = 0
    /\ mp3.blocks < MaxBlocks
    /\ wire_pos < Len(wire)
    /\ LET r == mp3_get_no_meta_sync(Icy, SubSeq(wire, wire_pos + 1,
                                                 wire_pos + n), unprocessed)
       IN IF r.refbuf = NoBuf
          THEN InstallIcy(r.st) /\ out' = out
          ELSE /\ InstallIcy(refbuf_release(r.st, r.refbuf))
               /\ out' = out \o SubSeq(r.st.bufs[r.refbuf].data, 1,
                                       r.st.bufs[r.refbuf].len)
    /\ wire_pos' = wire_pos + n
    /\ UNCHANGED <<relayVars, wire, slaveVars>>

InitMpeg ==
    /\ Install_init(EmptyState)
    /\ ice_running = TRUE
    /\ upstream = {}
    /\ passes = 0
    /\ last_cands = <<>>
    /\ wire = PayloadRun(0, WireLen)
    /\ InstallIcy_init(format_mp3_get_plugin(IcyOffState, 0, TRUE))
    /\ wire_pos = 0
    /\ out = <<>>
    /\ SlaveOff

NextMpeg ==
    \E n \in MpegReadResults, unprocessed \in UnprocessedCounts(ReadBlockLen) :
        SourceReadMpeg(n, unprocessed)

SpecMpeg == InitMpeg /\ [][NextMpeg]_vars

(***************************************************************************)
(* Properties of the frame validation                                      *)
(***************************************************************************)
\* the n bytes read complete the block, which the frame parser leaves with
\* unprocessed bytes after its last whole frame
Validates(n, unprocessed) ==
    /\ mp3.read_count + n = ReadBlockLen
    /\ SourceReadMpeg(n, unprocessed)

\* SOURCE_RUNNING is cleared and nothing is queued
TornDown == ~mp3'.source_running /\ out' = out

\* the frames of the block are queued and the source goes on without the
\* fragment
FramesQueued(unprocessed) ==
    /\ mp3'.source_running
    /\ mp3'.read_data = NoBuf
    /\ out' = out \o SubSeq(wire, Len(out) + 1,
                            Len(out) + ReadBlockLen - unprocessed)

\* C24: whenever the frame validation reports unprocessed < 0 or
\* unprocessed > 8000, SOURCE_RUNNING is cleared and the block is not queued
C24_BadFramesTearDown ==
    [][\A n \in MpegReadResults, u \in UnprocessedCounts(ReadBlockLen) :
          Validates(n, u) /\ (u < 0 \/ u > FrameLimit) => TornDown]_vars

\* C24 as the code has it: the source is torn down when unprocessed < 0, or
\* when unprocessed > 8000 and the block holds no whole frame; with
\* unprocessed > 8000 and frames in the block, the frames are queued and the
\* source goes on
C24_BadFramesTearDownUnlessFrames ==
    [][\A n \in MpegReadResults, u \in UnprocessedCounts(ReadBlockLen) :
          Validates(n, u) /\ (u < 0 \/ u > FrameLimit) =>
              IF u > 0 /\ u < ReadBlockLen THEN FramesQueued(u)
              ELSE TornDown]_vars

\* the source was torn down over a block of more than 8000 bytes
C24_LongBlockTornDown ==
    /\ mp3.alive
    /\ ~mp3.source_running
    /\ wire_pos > FrameLimit

(***************************************************************************)
(* The carry-over runs: the frame runs of a stream that parses, where the  *)
(* parser never gives up and never leaves more than FrameLimit bytes       *)
(***************************************************************************)
NextCarry ==
    \E n \in MpegReadResults,
       unprocessed \in UnprocessedCounts(ReadBlockLen) \cap (0..FrameLimit) :
        SourceReadMpeg(n, unprocessed)

SpecCarry == InitMpeg /\ [][NextCarry]_vars

\* the first read_count bytes of the pending read_data
Pending ==
    IF mp3.read_data = NoBuf THEN <<>>
    ELSE SubSeq(refbufs[mp3.read_data].data, 1, mp3.read_count)

\* C25: with 0 <= unprocessed <= 8000 on every block, the returned blocks
\* followed by the first read_count bytes of the pending read_data are the
\* bytes read so far, in order and each once, and a carry-over block is at
\* least queue_block_size bytes long
C25_CarryOverKeepsBytes ==
    /\ out \o Pending = SubSeq(wire, 1, wire_pos)
    /\ mp3.read_data # NoBuf => refbufs[mp3.read_data].len >= QueueBlockSize

\* a block was returned and a fragment of queue_block_size bytes or more is
\* carried over
C25_LongFragmentCarried ==
    /\ out # <<>>
    /\ mp3.read_data # NoBuf
    /\ mp3.read_count >= QueueBlockSize
    /\ refbufs[mp3.read_data].len = mp3.read_count + Growth

(***************************************************************************)
(* Properties of the metadata a block is given                             *)
(***************************************************************************)
\* the metadata refbufs made by format_mp3_get_plugin and mp3_set_title
MetaBufs(bufs) ==
    {i \in BufIds \ {Blank} : bufs[i].live /\ bufs[i].kind = "meta"}

\* who refers to the metadata refbuf i: the plugin state, the blocks that
\* are associated with it, the listener
Holders(bufs, m, l, i) ==
    Cardinality({b \in BufIds : bufs[b].live /\ bufs[b].kind = "block"
                                  /\ bufs[b].associated = i})
    + (IF m.metadata = i THEN 1 ELSE 0)
    + (IF l.associated = i THEN 1 ELSE 0)

CountsMatch(bufs, m, l) ==
    \A i \in MetaBufs(bufs) : bufs[i].count = Holders(bufs, m, l, i)

\* the step appends a block to the queue of the source
BlockQueued == Len(queue') = Len(queue) + 1

\* the block has the metadata of the moment, counted once more, and its flag
Attached(b) ==
    /\ refbufs'[b].associated = mp3'.metadata
    /\ "SOURCE_BLOCK_SYNC" \in refbufs'[b].flags
    /\ refbufs'[mp3'.metadata].count =
           IF mp3'.metadata = mp3.metadata
           THEN refbufs[mp3.metadata].count + 1
           ELSE 2

InlineParseNeverFails == mp3.source_running

\* the passes of the loop of mp3_get_filter_meta, from w on
RECURSIVE filter_trace(_)
filter_trace(w) ==
    IF w.left \/ w.bytes <= 0 THEN <<w>>
    ELSE <<w>> \o filter_trace(filter_pass(w))

\* the passes the call makes when client_read_bytes gives n bytes; none
\* when the block to read into is not yet full
CallPasses(n) ==
    LET r == complete_read(Icy, SubSeq(wire, wire_pos + 1, wire_pos + n))
    IN IF r.ret = 0 THEN <<>> ELSE filter_trace(filter_start(r.st))

\* the pass from w takes in the last bytes of a metadata block
BlockEnds(w) ==
    /\ ~w.left
    /\ w.bytes > 0
    /\ Mp3Block(w) = 0
    /\ w.bytes >= MetadataRemaining(filter_new_block(w))

\* the block: what build_metadata holds of it, then its bytes in hand
BlockBytes(w) ==
    BuildCopy(filter_new_block(w), MetadataRemaining(filter_new_block(w)))

\* the block has L = 0, or has the length and the title of the metadata
\* refbuf the plugin holds
NothingNew(w) ==
    \/ Len(BlockBytes(w)) = 1
    \/ /\ Len(BlockBytes(w)) = w.st.bufs[w.st.mp3.metadata].len
       /\ BodyText(BlockBytes(w)[1].body)
              = w.st.bufs[w.st.mp3.metadata].text

\* the pass changes none of the titles and leaves the payload that follows
\* the block where the block began
BlockDropped(w, v) ==
    /\ ~v.failed
    /\ v.st.mp3.url_title = w.st.mp3.url_title
    /\ v.st.mp3.update_metadata = w.st.mp3.update_metadata
    /\ v.st.mp3.metadata = w.st.mp3.metadata
    /\ v.st.bufs[v.st.mp3.metadata] = w.st.bufs[w.st.mp3.metadata]
    /\ v.st.mp3.offset = 0
    /\ v.len = w.len
    /\ v.src = w.src
    /\ SubSeq(v.data, v.src + 1, v.src + v.bytes)
           = SubSeq(w.data, w.src + 1 + w.bytes - v.bytes, w.src + w.bytes)
    /\ w.bytes - v.bytes = MetadataRemaining(filter_new_block(w))

BlockStart(i) == rx[i].kind = "m" /\ rx[i].idx = 1

\* C29: at an insert point where the block's associated metadata refbuf is
\* the one the listener was sent last, what reaches the listener is a single
\* zero byte, whether or not the first write attempt sends it: no metadata
\* refbuf made by mp3_set_title reaches the listener a second time
C29_SentMetadataNotRepeated ==
    \A i, j \in DOMAIN rx :
        (i < j /\ BlockStart(i) /\ BlockStart(j) /\ rx[i].title >= 1)
            => rx[i].title # rx[j].title

(***************************************************************************)
(* Properties of the iceblock writer                                       *)
(***************************************************************************)
\* a step in which an iceblock listener of an MPEG source was written to
IceWrite ==
    /\ mp3.alive /\ mp3.mpeg
    /\ lst.phase = "attached" /\ lst.wants_meta
    /\ lst'.phase = "attached"
    /\ (rx' # rx \/ lst' # lst)

\* the metadata bytes of the block the metadata refbuf m leads to
IceMetaBytes(s, m) ==
    [i \in 1..IceMetaLen |-> Tok("i", s.bufs[m].title, i, IceMetaLen)]

\* two bytes that read as the big-endian number n
BigEndian(n) ==
    [i \in 1..2 |-> Tok("l", IF i = 1 THEN n \div 256 ELSE n % 256, i, n)]

\* what the listener is to receive for the block it stands on: the metadata
\* bytes when withMeta holds, the length, the payload
IceBytes(s, withMeta) ==
    (IF withMeta THEN IceMetaBytes(s, s.bufs[s.lst.refbuf].associated)
     ELSE <<>>)
    \o BigEndian(s.bufs[s.lst.refbuf].len + 2)
    \o DataToks(s, s.lst.refbuf, 0, s.bufs[s.lst.refbuf].len)

\* the step has sent the next bytes of v, each once, and the listener is
\* done with the block exactly when the last byte of v has gone out
SentInOrder(s, v) ==
    LET o == s.lst.metadata_offset
        k == Len(rx') - Len(rx)
    IN /\ k >= 0
       /\ o + k <= Len(v)
       /\ rx' = rx \o SubSeq(v, o + 1, o + k)
       /\ IF k > 0 /\ o + k = Len(v)
          THEN /\ lst'.pos = s.bufs[s.lst.refbuf].len
               /\ lst'.associated = s.bufs[s.lst.refbuf].associated
               /\ lst'.metadata_offset = 0
          ELSE /\ lst'.pos = s.lst.pos
               /\ lst'.associated = s.lst.associated
               /\ lst'.metadata_offset = o + k
               /\ lst'.pos < s.bufs[s.lst.refbuf].len

\* the metadata refbuf m has an iceblock: mp3_set_title made it
HasIceblock(s, m) == m # NoBuf /\ s.bufs[m].chain = 2

\* C30: for every fragmentation of writes, the bytes an iceblock listener
\* receives for one queued block are the iceblock metadata bytes if and only
\* if the block's associated metadata differs from the listener's cached one,
\* then the 2-byte big-endian length, then the whole payload, each byte once;
\* only when all have been sent does the listener set pos to the length of
\* the block, swap its cached associated and reset metadata_offset
C30_IceblockBytes ==
    [][IceWrite =>
          LET s == queue_advance(Icy).st
          IN SentInOrder(s, IceBytes(s,
                 s.bufs[s.lst.refbuf].associated # s.lst.associated))]_vars

\* C30 as the code has it: the metadata bytes are sent if and only if the
\* block's associated metadata differs from the cached one and has an
\* iceblock, which the metadata refbuf of format_mp3_get_plugin has not
C30_IceblockBytesOfTitles ==
    [][IceWrite =>
          LET s == queue_advance(Icy).st
          IN SentInOrder(s, IceBytes(s,
                 /\ s.bufs[s.lst.refbuf].associated # s.lst.associated
                 /\ HasIceblock(s, s.bufs[s.lst.refbuf].associated)))]_vars

\* an iceblock listener has been written two blocks in fragments: the first
\* came with the metadata bytes of its title, the second, of the same title,
\* with its length and payload alone
C30_TwoBlocksFramed ==
    /\ mp3.alive /\ mp3.mpeg
    /\ lst.phase = "attached" /\ lst.wants_meta
    /\ lst.metadata_offset = 0
    /\ lst.refbuf # NoBuf
    /\ lst.pos = refbufs[lst.refbuf].len
    /\ Len(rx) = IceMetaLen + 2 * (2 + QueueBlockSize)
    /\ rx[1].kind = "i"
    /\ rx[IceMetaLen + 1].kind = "l"
    /\ rx[IceMetaLen + 2 + QueueBlockSize + 1].kind = "l"
    /\ rx[Len(rx)].kind = "d"

(***************************************************************************)
(* The on-demand runs: one on-demand relay with two masters; listeners     *)
(* come to its source and leave it, and the admin request toggles it       *)
(***************************************************************************)
MaxListeners == 1

DemandConfig ==
    <<Candidate("/a", <<Master("m1", 8000, "/a"), Master("m2", 8000, "/a")>>, 1)>>

\* source.c: a listener is added to a source that runs or is on demand
listener_add(s, src) == [s EXCEPT !.source[src].listeners = @ + 1]

\* source.c: a listener leaves; one that leaves a terminating source has
\* been checked
listener_remove(s, src) ==
    [s EXCEPT !.source[src].listeners = @ - 1,
              !.source[src].termination_count =
                  IF s.source[src].terminating /\ @ > 0 THEN @ - 1 ELSE @]

ListenerJoin(src) ==
    /\ source[src].exists
    /\ source[src].running \/ source[src].on_demand
    /\ ~source[src].terminating
    /\ source[src].listeners < MaxListeners
    /\ Install(listener_add(State, src))
    /\ UNCHANGED ctlVars

ListenerLeave(src) ==
    /\ source[src].exists
    /\ source[src].listeners > 0
    /\ Install(listener_remove(State, src))
    /\ UNCHANGED ctlVars

InitDemand ==
    /\ Install_init(update_relays(EmptyState, DemandConfig))
    /\ ice_running = TRUE
    /\ upstream = {a \in Answers : a.kind \in {"ok", "refused"}}
    /\ passes = 0
    /\ last_cands = DemandConfig
    /\ IcyOff
    /\ SlaveOff

NextDemand ==
    \/ \E r \in RelayIds : RelayToggle(r)
    \/ \E c \in ClientIds :
        \/ ListenerJoin(c)
        \/ ListenerLeave(c)
        \/ RelayInitialise(c)
        \/ RelayStartup(c)
        \/ RelayRead(c)
        \/ StartRelayStreamBegin(c)
        \/ OpenRelayConnection(c)
        \/ StartRelayStreamFinish(c)
        \/ StartRelayStreamEnd(c)

SpecDemand == InitDemand /\ [][NextDemand]_vars

(***************************************************************************)
(* Properties of the start of an on-demand relay                           *)
(***************************************************************************)
\* the inputs relay_startup can meet: a fallback has listeners only if one
\* is defined
FallbackInputs ==
    {<<FALSE, FALSE>>, <<TRUE, FALSE>>, <<TRUE, TRUE>>}

\* the relay of client c as the callback sees it
Fetched(c) == get_relay_details(Due(State, c), c)

RelayOf(c) == Fetched(c).relay[Fetched(c).client[c].shared_data]

\* client c is due in relay_startup for an on-demand relay whose source has
\* no listener, and no fallback with listeners under the inputs f
NoDemand(c, f) ==
    /\ Scheduled(c, "startup")
    /\ RelayOf(c).on_demand = 1
    /\ Fetched(c).source[RelayOf(c).source].listeners = 0
    /\ ~(f[1] /\ f[2])

\* relay_startup has only put the client off: by relay->interval seconds
\* with a fallback, by 60 s without; SOURCE_ON_DEMAND is published, no task
\* is started and relays_connecting is as before
OnlyRescheduled(c, f) ==
    LET res == relay_startup(Due(State, c), c, f[1], f[2])
        src == RelayOf(c).source
    IN /\ res.ret = 0
       /\ res.st.rcon = relays_connecting
       /\ res.st.thr = thr
       /\ res.st = [Fetched(c) EXCEPT
              !.client[c].sched = IF f[1] THEN RelayOf(c).interval * 1000
                                  ELSE 60000,
              !.source[src].on_demand = TRUE]

\* C31: an on-demand relay never starts a relay-open task while its source
\* has zero listeners and its fallback mount (if any) has no listeners; in
\* that situation relay_startup only reschedules the client (relay.interval
\* seconds if a fallback is defined, otherwise 60 s) and relays_connecting
\* is unchanged
C31_OnDemandWaits ==
    \A c \in ClientIds : \A f \in FallbackInputs :
        NoDemand(c, f) => OnlyRescheduled(c, f)

\* no task is started in that situation, whatever the relay's state
NoTaskStarted(c, f) ==
    LET res == relay_startup(Due(State, c), c, f[1], f[2])
    IN /\ res.st.rcon = relays_connecting
       /\ res.st.thr = thr
       /\ res.st.client[c].active

\* C31 for a relay that is running and not being removed: a relay that was
\* stopped or is to be cleaned up is handed to relay_read or released
C31_RunningOnDemandWaits ==
    \A c \in ClientIds : \A f \in FallbackInputs :
        NoDemand(c, f) =>
            /\ NoTaskStarted(c, f)
            /\ (RelayOf(c).running = 1 /\ RelayOf(c).cleanup = 0
                    /\ ice_running)
                   => OnlyRescheduled(c, f)

\* the on-demand relay stands in relay_startup, put off for 60 s: no
\* listener, no fallback, no task and no source counted
C31_PutOffWithoutListener ==
    \E c \in ClientIds :
        /\ Scheduled(c, "startup")
        /\ client[c].sched = 60000
        /\ relay[client[c].shared_data].on_demand = 1
        /\ relay[client[c].shared_data].running = 1
        /\ source[relay[client[c].shared_data].source].listeners = 0
        /\ source[relay[client[c].shared_data].source].on_demand
        /\ relays_connecting = 0
        /\ thr[c].pc = "idle"
        /\ global_sources = 0
        /\ \E m \in DOMAIN relay[client[c].shared_data].masters :
               relay[client[c].shared_data].masters[m].skip = 0

(***************************************************************************)
(* The source-limit runs: other sources of the server leave room for one   *)
(* more; a plain relay and an on-demand relay of two masters each start    *)
(***************************************************************************)
LimitConfig ==
    <<Candidate("/a", <<Master("m1", 8000, "/a"), Master("m2", 8000, "/a")>>, 0),
      Candidate("/b", <<Master("m1", 8000, "/b"), Master("m2", 8000, "/b")>>, 1)>>

InitLimit ==
    /\ Install_init([update_relays(EmptyState, LimitConfig)
                        EXCEPT !.gsrc = CfgSourceLimit - 1])
    /\ ice_running = TRUE
    /\ upstream = {a \in Answers : a.kind \in {"ok", "refused"}}
    /\ passes = 0
    /\ last_cands = LimitConfig
    /\ IcyOff
    /\ SlaveOff

SpecLimit == InitLimit /\ [][NextStart]_vars

\* the source of the relay of client c
SourceOf(c) == relay[client[c].shared_data].source

\* the task of client c has found global.sources above source_limit
OverLimit(c) == thr[c].pc = "finish" /\ thr[c].exit = "sources"

\* C32: when starting a relay would raise global.sources above source_limit,
\* start_relay_stream makes no upstream connection attempt, clears
\* SOURCE_ON_DEMAND for an on-demand relay or removes the YP registration
\* otherwise, releases the source lock, and leaves the relay client
\* scheduled (relay_read, due at once), from where the start is tried again
C32_OverLimitNoAttempt ==
    [][\A c \in ClientIds :
          /\ (thr[c].pc = "start" /\ thr'[c] # thr[c]
                  /\ global_sources + 1 > CfgSourceLimit)
                 => /\ thr'[c].pc = "finish"
                    /\ thr'[c].exit = "sources"
                    /\ thr'[c].master = NoMaster
                    /\ relay'[client[c].shared_data].masters
                           = relay[client[c].shared_data].masters
          /\ OverLimit(c) =>
                 /\ thr'[c].pc \in {"finish", "done"}
                 /\ thr'[c].pc = "done" =>
                        /\ IF relay[client[c].shared_data].on_demand = 1
                           THEN ~source'[SourceOf(c)].on_demand
                           ELSE thr'[c].yp_removed
                        /\ ~source'[SourceOf(c)].locked
                        /\ ~source'[SourceOf(c)].running
                        /\ client'[c].ops = "read"
                        /\ client'[c].sched = 0
          /\ (thr[c].pc = "done" /\ thr'[c] # thr[c])
                 => /\ client'[c].exists
                    /\ client'[c].active
                    /\ client'[c].ops = "read"
                    /\ client'[c].sched = 0
      ]_vars

\* the plain relay took the last place under source_limit and runs; the
\* task of the on-demand relay found the limit passed, made no attempt and
\* is about to end with the client handed to relay_read
C32_LimitPassed ==
    \E c, d \in ClientIds :
        /\ client[c].exists /\ client[d].exists
        /\ thr[c].pc = "done"
        /\ thr[c].exit = "sources"
        /\ thr[c].master = NoMaster
        /\ relay[client[c].shared_data].on_demand = 1
        /\ ~source[SourceOf(c)].on_demand
        /\ ~source[SourceOf(c)].locked
        /\ client[c].ops = "read"
        /\ ~client[c].active
        /\ global_sources = CfgSourceLimit + 1
        /\ relay[client[d].shared_data].on_demand = 0
        /\ source[SourceOf(d)].running

(***************************************************************************)
(* Properties of relays_connecting and of the relay-open task              *)
(***************************************************************************)
\* C33: relays_connecting is never negative and equals the number of
\* relay-open tasks that relay_startup has started and that have not yet
\* finished, on the success and on the failure path alike; it is 0 when no
\* open is in flight
C33_ConnectingCountsTasks ==
    /\ relays_connecting >= 0
    /\ relays_connecting = Cardinality(InFlight)

\* two tasks have come and gone, one that opened a stream and one that
\* failed, and the counter is back at 0
C33_BothPathsCountedBack ==
    /\ relays_connecting = 0
    /\ InFlight = {}
    /\ \E c, d \in ClientIds :
          /\ client[c].exists /\ client[d].exists
          /\ client[c].con_time /\ client[c].ops = "read"
          /\ source[SourceOf(c)].running
          /\ client[d].con_time /\ client[d].ops = "read"
          /\ ~source[SourceOf(d)].running

\* a process callback of client c
Callback(c) == RelayInitialise(c) \/ RelayStartup(c) \/ RelayRead(c)

\* C34: for each relay there is at most one relay-open task in flight, and
\* while it is in flight CLIENT_ACTIVE of the relay's client is clear, so no
\* worker runs relay_initialise, relay_startup or relay_read on the relay
\* while start_relay_stream runs on it
C34_NoCallbackDuringOpen ==
    \A c \in InFlight :
        /\ client[c].exists
        /\ ~client[c].active
        /\ ~ENABLED Callback(c)
        /\ relay[client[c].shared_data].alloc
        /\ \A d \in InFlight \ {c} :
               /\ client[d].shared_data # client[c].shared_data
               /\ relay[client[d].shared_data].localmount
                      # relay[client[c].shared_data].localmount

\* a task is connecting for a relay that the admin request has stopped and
\* woken meanwhile: the client is due, and is left alone
C34_WokenDuringOpen ==
    \E c \in InFlight :
        /\ thr[c].pc = "connect"
        /\ relay[client[c].shared_data].running = 0
        /\ client[c].sched = 0
        /\ ~client[c].active

(***************************************************************************)
(* Properties of the skip flags between open attempts                      *)
(***************************************************************************)
AllSkipped(r) ==
    \A m \in DOMAIN relay[r].masters : relay[r].masters[m].skip = 1

\* the last open attempt of the relay failed, or none was made: only the
\* failure path of start_relay_stream resets in_use
LastOpenFailed(r) == relay[r].in_use = NoMaster

\* C35: a relay with running = 1 is never left with every master marked
\* skip = 1 across two consecutive open attempts: after an attempt in which
\* all masters were skipped or failed, relay_read has cleared every skip
\* flag when the relay stands in relay_startup again
C35_SkipsClearedAfterFailure ==
    \A c \in ClientIds :
        (/\ client[c].exists
         /\ client[c].ops \in {"init", "startup"}
         /\ thr[c].pc = "idle"
         /\ relay[client[c].shared_data].running = 1
         /\ LastOpenFailed(client[c].shared_data))
            => ~AllSkipped(client[c].shared_data)

(***************************************************************************)
(* Properties of redirect_count                                            *)
(***************************************************************************)
\* no thread is inside redirect_client, redirector_update,
\* update_master_as_slave or redirector_clearall
NoOperationRunning ==
    \A t \in RedirectThreads \cup {UpdateThread} : slaves.thr[t].pc = "idle"

Redirectors(sl) == ListFrom(sl, sl.redirectors, MaxHosts)

\* redirector_update has added an entry in this step
UpdateAdded ==
    /\ slaves.thr[UpdateThread].pc = "update"
    /\ Redirectors(slaves') # Redirectors(slaves)

\* C36: after every sequence of redirector_add, redirector_update,
\* redirect_client (with inline expiry), update_master_as_slave and
\* redirector_clearall operations redirect_count is the number of entries of
\* redirectors, and redirector_update adds no entry when redirect_count has
\* reached max_redirects and no second entry for a server already listed
C36_CountIsListLength ==
    [][/\ NoOperationRunning' =>
              slaves'.redirect_count = Cardinality(Redirectors(slaves'))
       /\ UpdateAdded =>
              /\ slaves.redirect_count < CfgMaxRedirects
              /\ Cardinality(Redirectors(slaves)) < CfgMaxRedirects
              /\ \A h \in Redirectors(slaves) :
                     slaves.host[h].server # slaves.thr[UpdateThread].server
      ]_vars

(***************************************************************************)
(* Properties of the result of redirect_client                             *)
(***************************************************************************)
\* redirect_client of worker t returns in this step
Returns(t) ==
    /\ slaves.thr[t].pc = "scan"
    /\ slaves.thr[t].checking = 0
    /\ slaves'.thr[t].pc = "idle"

\* client_send_302 is called in this step
Sends(t) == slaves'.thr[t].sent = slaves.thr[t].sent + 1

\* entries of the list that have not expired; while a lookup holds the read
\* lock none is added or touched, so these were on the list, and not
\* expired, when the lookup began
GoodHosts ==
    {h \in Redirectors(slaves) : ~TimeRanOut(h)}

\* C37: redirect_client sends at most one 302 per call and returns 1 exactly
\* when it sent one; whenever a non-expired host is on the list the client
\* is redirected (return value 1) to a non-expired host, whichever position
\* was drawn and whichever entries expire during the traversal
C37_RedirectedWhenHostLeft ==
    [][\A t \in RedirectThreads :
          /\ Sends(t) =>
                 /\ ~TimeRanOut(slaves.thr[t].checking)
                 /\ slaves'.thr[t].location
                        = slaves.host[slaves.thr[t].checking].server
          /\ Returns(t) =>
                 /\ slaves.thr[t].sent <= 1
                 /\ slaves.thr[t].ret = 1 <=> slaves.thr[t].sent = 1
                 /\ GoodHosts # {} => slaves.thr[t].ret = 1
      ]_vars

(***************************************************************************)
(* Properties of the metadata an ICY listener holds                        *)
(***************************************************************************)
\* the listener gets its data from format_mp3_write_buf_to_client
IcyListener == lst.phase = "attached" /\ ~(mp3.mpeg /\ lst.wants_meta)

\* C38: in every state of an ICY listener the cached metadata handle is
\* blank_meta if and only if CLIENT_USING_BLANK_META is set, and while
\* CLIENT_IN_METADATA is set the cached handle is not NULL and
\* metadata_offset is less than the length of that block
C38_CachedHandleAndFlags ==
    IcyListener =>
        /\ lst.associated = Blank <=> lst.using_blank
        /\ lst.in_metadata =>
               /\ lst.associated # NoBuf
               /\ lst.metadata_offset < refbufs[lst.associated].len

\* a write stopped part of the way through the blank block
C38_PartOfBlankSent ==
    /\ IcyListener
    /\ lst.using_blank
    /\ lst.in_metadata
    /\ lst.metadata_offset > 0

(***************************************************************************)
(* Properties of client->queue_pos, counted from the listener's attach     *)
(***************************************************************************)
\* the listener gets its data from send_iceblock_to_client
IceListener == lst.phase = "attached" /\ mp3.mpeg /\ lst.wants_meta

\* queue_pos of a raw or ICY listener is the payload written to it
QueuePosIsPayload == (lst.phase = "attached" /\ ~IceListener) => lst.queue_pos = Payload

\* C39: between two blocks the queue_pos of an iceblock listener is the
\* payload of the blocks sent to it (refbuf->len for each), however many
\* writes each block took, as the queue_pos of a raw or ICY listener is the
\* payload written to it
C39_QueuePosAdvancesByLen ==
    /\ QueuePosIsPayload
    /\ (IceListener /\ lst.metadata_offset = 0) => lst.queue_pos = Payload

(***************************************************************************)
(* Properties of a merge whose candidates repeat a localmount              *)
(***************************************************************************)
\* the step is the update_relays call of streamlist_thread
MergeStep == lister.pc = "merge" /\ lister'.pc = "free" /\ MergeWanted(lister)

\* no two relays of the list have the same localmount
OnePerMount(rs, list) ==
    \A i, j \in DOMAIN list :
        i # j => rs[list[i]].localmount # rs[list[j]].localmount

\* the clients relay_install has made in this step
Installed == {c \in ClientIds : client'[c].exists /\ ~client[c].exists}

\* C40: a merge over a list that holds one relay per localmount leaves one
\* relay per localmount in the list and installs at most one client for a
\* localmount, also when the candidates name a localmount more than once
C40_OneRelayPerLocalmount ==
    [][(MergeStep /\ OnePerMount(relay, lister.master_relays)) =>
          /\ OnePerMount(relay', lister'.master_relays)
          /\ \A c, d \in Installed :
                 c # d => relay'[client'[c].shared_data].localmount
                            # relay'[client'[d].shared_data].localmount
      ]_vars

====
